---- MODULE Spec2Model ----
(***************************************************************************)
(* A model of src/src/data_processing.py: the Series table operations      *)
(* (validate_series_df, trim, update_series, shift_series, ...) as         *)
(* operators over tables of rows, and one specification per family of      *)
(* operations whose Init draws the arguments of a call and whose actions   *)
(* are the calls.                                                          *)
(*                                                                         *)
(* Representation.  A DataFrame is a sequence of rows; a row is a record   *)
(* with the columns x, y, shift, meas_name, starttime, endtime, duration   *)
(* and its index label.  Times are integers in milliseconds; duration is   *)
(* kept in units of 1/60000 minute, so (end - start).total_seconds()/60    *)
(* is the millisecond difference and stays exact.  A meas_name is a        *)
(* sequence of one-character strings.  An optional argument is <<>> for    *)
(* None and <<v>> for the value v.  A call returns Return(v) or Raise(e).  *)
(***************************************************************************)
EXTENDS Integers, Sequences, FiniteSets, TLC

VARIABLES pc,    \* the last call made ("start" before any call)
          inp,   \* the table (or value) the first call is applied to
          args,  \* the other arguments of the calls made
          ret    \* the values the calls returned, in call order
vars == <<pc, inp, args, ret>>

---------------------------------------------------------------------------
(* Values *)

None == <<>>
Some(v) == <<v>>

\* np.nan in a y array; intervals are >= 0, so -1 is free to stand for it.
NaN == -1
IsNaN(v) == v = NaN

Return(v) == [raised |-> FALSE, value |-> v]
Raise(e) == [raised |-> TRUE, exc |-> e]

Max(S) == CHOOSE v \in S : \A w \in S : w <= v
Min(S) == CHOOSE v \in S : \A w \in S : v <= w
Abs(v) == IF v < 0 THEN -v ELSE v
Range(f) == {f[i] : i \in DOMAIN f}

RECURSIVE SortedSeq(_)
SortedSeq(S) == IF S = {} THEN <<>>
                ELSE LET m == Min(S) IN <<m>> \o SortedSeq(S \ {m})

\* a[I] for an index array I (numpy fancy indexing keeps index order)
AtIndices(a, I) == LET idx == SortedSeq(I) IN [k \in 1..Len(idx) |-> a[idx[k]]]

RECURSIVE Concat(_)
Concat(ss) == IF ss = <<>> THEN <<>> ELSE Head(ss) \o Concat(Tail(ss))

\* np.cumsum
RECURSIVE CumSum(_)
CumSum(y) == IF y = <<>> THEN <<>>
             ELSE LET p == CumSum(SubSeq(y, 1, Len(y) - 1))
                  IN Append(p, (IF p = <<>> THEN 0 ELSE p[Len(p)]) + y[Len(y)])

\* the successive differences of a cumulative time axis (the y it sums)
Diffs(x) == [i \in DOMAIN x |-> IF i = 1 THEN x[1] ELSE x[i] - x[i - 1]]

---------------------------------------------------------------------------
(* update_series: a copy of a one-row table's row with the given columns   *)
(* replaced; None keeps the old value.                                     *)

update_series(serie, x, y, shift, meas_name, starttime, endtime, duration, index) ==
  [x         |-> IF x = None THEN serie.x ELSE x[1],
   y         |-> IF y = None THEN serie.y ELSE y[1],
   shift     |-> IF shift = None THEN serie.shift ELSE shift[1],
   meas_name |-> IF meas_name = None THEN serie.meas_name ELSE meas_name[1],
   starttime |-> IF starttime = None THEN serie.starttime ELSE starttime[1],
   endtime   |-> IF endtime = None THEN serie.endtime ELSE endtime[1],
   duration  |-> IF duration = None THEN serie.duration ELSE duration[1],
   index     |-> IF index = None THEN serie.index ELSE index[1]]

---------------------------------------------------------------------------
(* validate_series_df.  It reads the Python type of every cell, so it works *)
(* on a frame: the kind of the value passed, its columns, and rows of       *)
(* typed cells [type, v].  Frame(tbl) is the frame of a well-typed table.   *)

expected_columns == <<"x", "y", "shift", "meas_name", "starttime", "endtime", "duration">>

\* the Python types isinstance(value, expected_type) accepts for a column;
\* an object-dtype array is an np.ndarray too
expected_type(col) ==
  CASE col \in {"x", "y"} -> {"ndarray", "ndarray_object"}
    [] col \in {"shift", "duration"} -> {"int", "float"}
    [] col = "meas_name" -> {"str"}
    [] col \in {"starttime", "endtime"} -> {"Timestamp"}

CellType(col) ==
  CASE col \in {"x", "y"} -> "ndarray"
    [] col \in {"shift", "duration"} -> "float"
    [] col = "meas_name" -> "str"
    [] col \in {"starttime", "endtime"} -> "Timestamp"

Cell(t, v) == [type |-> t, v |-> v]

\* an entry of the errors list: what failed, in which column, at which row
\* (column "" and row 0 where the failure is the table's)
Err(what, col, i) == <<what, col, i>>

Frame(tbl) ==
  [kind |-> "DataFrame",
   columns |-> {expected_columns[k] : k \in DOMAIN expected_columns},
   index |-> [i \in DOMAIN tbl |-> tbl[i].index],
   rows |-> [i \in DOMAIN tbl |->
               [col \in {expected_columns[k] : k \in DOMAIN expected_columns} |->
                  Cell(CellType(col), tbl[i][col])]]]

\* value[~np.isnan(value) & (value != '')].size
valid_elements_size(a) == Cardinality({i \in DOMAIN a : ~IsNaN(a[i])})

\* np.nansum and the count np.nanmean divides it by
NanSum(a) == LET F[i \in 0..Len(a)] ==
                   IF i = 0 THEN 0
                   ELSE F[i - 1] + (IF IsNaN(a[i]) THEN 0 ELSE a[i])
             IN F[Len(a)]

\* the checks of one cell inside the try block (lines 489-499):
\* the errors it appends and whether it throws (np.isnan of a non-numeric
\* array is a TypeError)
cell_check(col, i, cell) ==
  LET type_err == IF cell.type \in expected_type(col) THEN <<>>
                  ELSE << Err("type", col, i) >>
      is_array == col \in {"x", "y"} /\ cell.type \in {"ndarray", "ndarray_object"}
  IN IF is_array /\ cell.type = "ndarray_object"
       THEN [errors |-> type_err, thrown |-> TRUE]
     ELSE IF is_array /\ valid_elements_size(cell.v) <= 3
       THEN [errors |-> Append(type_err, Err("valid_elements", col, i)), thrown |-> FALSE]
     ELSE [errors |-> type_err, thrown |-> FALSE]

\* column_checks as it would be if validation were fail-fast: the loop
\* ends at the first failure found
RECURSIVE column_checks_failfast(_, _, _)
column_checks_failfast(df, k, i) ==
  IF k > Len(expected_columns) THEN [errors |-> <<>>, thrown |-> FALSE]
  ELSE LET col == expected_columns[k] IN
    IF col \notin df.columns
      THEN [errors |-> << Err("missing", col, 0) >>, thrown |-> FALSE]
    ELSE IF i > Len(df.rows) THEN column_checks_failfast(df, k + 1, 1)
    ELSE LET c == cell_check(col, i, df.rows[i][col]) IN
      IF c.thrown \/ c.errors # <<>> THEN c
      ELSE column_checks_failfast(df, k, i + 1)

\* the loop over expected_columns and, inside it, over the rows, from column
\* number k and row i on; an exception ends it
RECURSIVE column_checks(_, _, _)
column_checks(df, k, i) ==
  IF k > Len(expected_columns) THEN [errors |-> <<>>, thrown |-> FALSE]
  ELSE LET col == expected_columns[k] IN
    IF col \notin df.columns
      THEN LET rest == column_checks(df, k + 1, 1)
           IN [errors |-> << Err("missing", col, 0) >> \o rest.errors, thrown |-> rest.thrown]
    ELSE IF i > Len(df.rows) THEN column_checks(df, k + 1, 1)
    ELSE LET c == cell_check(col, i, df.rows[i][col]) IN
      IF c.thrown THEN c
      ELSE LET rest == column_checks(df, k, i + 1)
           IN [errors |-> c.errors \o rest.errors, thrown |-> rest.thrown]

\* the body of the try block (lines 459-499); a thrown exception is caught
\* and appended as "Unexpected error"
structural_errors(df, min_size, max_size) ==
  LET not_df == IF df.kind # "DataFrame" THEN << Err("not_dataframe", "", 0) >> ELSE <<>>
  IN IF df.kind \notin {"DataFrame", "Series"}
       THEN not_df \o << Err("unexpected", "", 0) >>         \* no .shape
     ELSE
       LET series_size == Len(df.rows)
           too_many == IF max_size # None /\ series_size > max_size[1]
                       THEN << Err("max_size", "", 0) >> ELSE <<>>
           too_few == IF min_size # None /\ series_size < min_size[1]
                      THEN << Err("min_size", "", 0) >> ELSE <<>>
       IN IF df.kind = "Series"
            THEN not_df \o too_many \o too_few \o << Err("unexpected", "", 0) >>  \* no .columns
          ELSE LET cc == column_checks(df, 1, 1)
               IN too_many \o too_few \o cc.errors
                    \o (IF cc.thrown THEN << Err("unexpected", "", 0) >> ELSE <<>>)

\* a sample-ratio check that lets a mean interval that is NaN or not
\* positive pass
sample_errors_row_any_mean(row, i, threshold_samples) ==
  IF threshold_samples = None THEN <<>>
  ELSE IF valid_elements_size(row["y"].v) > 0 /\ NanSum(row["y"].v) > 0
            /\ Len(row["x"].v) * NanSum(row["y"].v) * threshold_samples[1].den
                 < threshold_samples[1].num * (row["endtime"].v - row["starttime"].v)
                     * valid_elements_size(row["y"].v)
    THEN << Err("sample_ratio", "x", i) >>
  ELSE <<>>

\* the sample-ratio check of one row (lines 520-534); threshold_samples is
\* the fraction num/den.  x.size < threshold * duration_ms / mean(y) with
\* mean(y) = sum/n > 0 is x.size * sum * den < num * duration_ms * n.
sample_errors_row(row, i, threshold_samples) ==
  IF threshold_samples = None THEN <<>>
  ELSE LET x_array == row["x"].v
           y_array == row["y"].v
           duration_ms == row["endtime"].v - row["starttime"].v
           n == valid_elements_size(y_array)
           sum == NanSum(y_array)
           t == threshold_samples[1]
       IN IF n > 0 /\ sum > 0
            THEN IF Len(x_array) * sum * t.den < t.num * duration_ms * n
                   THEN << Err("sample_ratio", "x", i) >> ELSE <<>>
          ELSE << Err("avg_y", "y", i) >>

sample_errors(df, threshold_samples) ==
  Concat([i \in DOMAIN df.rows |-> sample_errors_row(df.rows[i], i, threshold_samples)])

\* validate_series_df: [ok, errors], or the AttributeError of
\* series_df.index.tolist() (line 507) on a value that has no index
validate_series_df(df, min_size, max_size, threshold_samples) ==
  LET errors == structural_errors(df, min_size, max_size)
  IN IF errors # <<>>
       THEN IF df.kind \in {"DataFrame", "Series"}
              THEN Return([ok |-> FALSE, errors |-> errors])
            ELSE Raise("AttributeError")
     ELSE LET more == sample_errors(df, threshold_samples)
          IN Return([ok |-> more = <<>>, errors |-> more])

\* "if validate_series_df(...)" on a table
Validates(tbl, min_size, max_size, threshold_samples) ==
  validate_series_df(Frame(tbl), min_size, max_size, threshold_samples).value.ok

---------------------------------------------------------------------------
(* trim *)

\* a trim whose window excludes its two bounds
trim_row_open(row, new_start, new_end) ==
  update_series(row,
                Some(SelectSeq(row.x, LAMBDA t : t > new_start /\ t < new_end)),
                Some(AtIndices(row.y, {i \in DOMAIN row.x :
                                         row.x[i] > new_start /\ row.x[i] < new_end})),
                None, None, None, None, None, None)

\* one iteration of trim's loop over the rows
trim_row(row, new_start, new_end) ==
  LET selected_indices_x ==
        {i \in DOMAIN row.x : row.x[i] >= new_start /\ row.x[i] <= new_end}
      new_x == AtIndices(row.x, selected_indices_x)
      new_y == AtIndices(row.y, selected_indices_x)
      new_starttime == IF new_x = <<>> THEN row.starttime + new_start
                       ELSE row.starttime + new_x[1]
      new_endtime == IF new_x = <<>> THEN row.starttime + new_end
                     ELSE row.starttime + new_x[Len(new_x)]
      new_duration == new_endtime - new_starttime
  IN update_series(row, Some(new_x), Some(new_y), None, None,
                   Some(new_starttime), Some(new_endtime), Some(new_duration), None)

\* max() of no rows raises ValueError; arr[0] of an empty array raises IndexError
trim(series_df, start, end) ==
  IF series_df = <<>> THEN Raise("ValueError")
  ELSE IF \E i \in DOMAIN series_df : series_df[i].x = <<>> THEN Raise("IndexError")
  ELSE LET max_start == Max({series_df[i].x[1] : i \in DOMAIN series_df})
           min_stop == Min({series_df[i].x[Len(series_df[i].x)] : i \in DOMAIN series_df})
           new_start == IF start = None THEN max_start ELSE start[1]
           new_end == IF end = None THEN min_stop ELSE end[1]
       IN Return([i \in DOMAIN series_df |-> trim_row(series_df[i], new_start, new_end)])

---------------------------------------------------------------------------
(* split_signal_on_gaps *)

\* k_max_gap's default (line 1306)
DefaultKMaxGap == 5

\* np.nanmax(y): NaN when no element is valid
NanMax(y) == IF \A i \in DOMAIN y : IsNaN(y[i]) THEN NaN
             ELSE Max({y[i] : i \in {j \in DOMAIN y : ~IsNaN(y[j])}})

\* a gap test that also cuts at a step equal to max_gap
ExceedsGapOrEqual(x, j, max_gap) == ~IsNaN(max_gap) /\ (x[j] - x[j - 1]) >= max_gap

\* (x[i] - x[i - 1]) > max_gap, false when max_gap is NaN
ExceedsGap(x, j, max_gap) == ~IsNaN(max_gap) /\ (x[j] - x[j - 1]) > max_gap

\* a chunk that keeps the timing fields of the Series it is cut from
make_chunk_same_timing(serie_df, lo, hi) ==
  <<update_series(serie_df[1], Some(SubSeq(serie_df[1].x, lo, hi)),
                  Some(SubSeq(serie_df[1].y, lo, hi)),
                  None, None, None, None, None, None)>>

\* the chunk of samples lo..hi as a one-row table (lines 1344-1363, 1377-1393)
make_chunk(serie_df, lo, hi) ==
  LET row == serie_df[1]
      new_x == SubSeq(row.x, lo, hi)
      new_y == SubSeq(row.y, lo, hi)
      new_starttime == row.starttime + new_x[1]
      new_endtime == row.starttime + new_x[Len(new_x)]
      new_duration == new_endtime - new_starttime
  IN <<update_series(row, Some(new_x), Some(new_y), None, None,
                     Some(new_starttime), Some(new_endtime), Some(new_duration), None)>>

\* a chunk that is appended without validation
keep_chunk_always(chunk) == TRUE

\* a chunk kept from three valid samples on
keep_chunk_from_three(chunk) ==
  valid_elements_size(chunk[1].x) >= 3 /\ valid_elements_size(chunk[1].y) >= 3

\* "if validate_series_df(updated_serie, 1, 1)" (lines 1365, 1395)
keep_chunk(chunk) == Validates(chunk, Some(1), Some(1), None)

\* the loop of lines 1335-1371 from sample j on, the current chunk starting
\* at sample lo, and after it the last chunk (lines 1373-1396): the splits
RECURSIVE split_loop(_, _, _, _)
split_loop(serie_df, max_gap, j, lo) ==
  LET x == serie_df[1].x IN
  IF j > Len(x)
    THEN LET last == make_chunk(serie_df, lo, Len(x))
         IN IF keep_chunk(last) THEN <<last>> ELSE <<>>
  ELSE IF ExceedsGap(x, j, max_gap)
    THEN LET chunk == make_chunk(serie_df, lo, j - 1)
         IN (IF keep_chunk(chunk) THEN <<chunk>> ELSE <<>>)
              \o split_loop(serie_df, max_gap, j + 1, j)
  ELSE split_loop(serie_df, max_gap, j + 1, lo)

\* a split that returns the chunks it kept, even when it kept none
split_signal_on_gaps_no_fallback(serie_df, k_max_gap) ==
  IF serie_df[1].y = <<>> \/ serie_df[1].x = <<>> THEN Raise("ValueError")
  ELSE Return(Concat(split_loop(serie_df,
                                IF IsNaN(NanMax(serie_df[1].y)) THEN NaN
                                ELSE NanMax(serie_df[1].y) * k_max_gap,
                                2, 1)))

\* np.nanmax of an empty array raises ValueError
split_signal_on_gaps(serie_df, k_max_gap) ==
  IF serie_df[1].y = <<>> \/ serie_df[1].x = <<>> THEN Raise("ValueError")
  ELSE LET nanmax == NanMax(serie_df[1].y)
           max_gap == IF IsNaN(nanmax) THEN NaN ELSE nanmax * k_max_gap
           splits == split_loop(serie_df, max_gap, 2, 1)
       IN IF splits # <<>> THEN Return(Concat(splits)) ELSE Return(serie_df)

---------------------------------------------------------------------------
(* interp_pair_uniform_time.  Interpolated values are exact fractions      *)
(* <<numerator, denominator>> in lowest terms, <<0, 0>> for NaN.           *)

RECURSIVE GCD(_, _)
GCD(a, b) == IF b = 0 THEN a ELSE GCD(b, a % b)

Frac(n, d) == LET g == GCD(Abs(n), Abs(d)) IN <<n \div g, d \div g>>
FracNaN == <<0, 0>>

\* np.arange(start, stop, step) for step > 0: start + k * step below stop
arange(start, stop, step) ==
  IF stop <= start THEN <<>>
  ELSE [k \in 1..((stop - start + step - 1) \div step) |-> start + (k - 1) * step]

\* interp1d(x, y, kind='linear', fill_value='extrapolate')(g): the line
\* through the two samples around g, the first or last two outside the range
interp1d(x, y, g) ==
  LET n == Len(x)
      j == IF g <= x[1] THEN 1
           ELSE IF g >= x[n] THEN n - 1
           ELSE Max({i \in 1..(n - 1) : x[i] <= g})
  IN IF IsNaN(y[j]) \/ IsNaN(y[j + 1]) THEN FracNaN
     ELSE Frac(y[j] * (x[j + 1] - x[j]) + (y[j + 1] - y[j]) * (g - x[j]), x[j + 1] - x[j])

\* ix = np.arange(min_common_x, max_common_x + ix_step, ix_step) (line 690)
uniform_axis(min_common_x, max_common_x, ix_step) ==
  arange(min_common_x, max_common_x + ix_step, ix_step)

interp_pair_uniform_time(pair_df, ix_step) ==
  LET x1 == pair_df[1].x
      y1 == pair_df[1].y
      x2 == pair_df[2].x
      y2 == pair_df[2].y
      max_common_x == Min({Max(Range(x1)), Max(Range(x2))})
      min_common_x == Max({Min(Range(x1)), Min(Range(x2))})
      ix == uniform_axis(min_common_x, max_common_x, ix_step)
      iy1 == [k \in DOMAIN ix |-> interp1d(x1, y1, ix[k])]
      iy2 == [k \in DOMAIN ix |-> interp1d(x2, y2, ix[k])]
  IN <<update_series(pair_df[1], Some(ix), Some(iy1), None, None, None, None, None, None),
       update_series(pair_df[2], Some(ix), Some(iy2), None, None, None, None, None, None)>>

---------------------------------------------------------------------------
(* The outlier filters and interpolate_nan_values *)

\* sd_threshold=3 (lines 952, 1100)
SdThreshold == 3
\* threshold_factor=0.2 (line 1101), in tenths
ThresholdFactorTenths == 2

NanSumSq(a) == LET F[i \in 0..Len(a)] ==
                     IF i = 0 THEN 0
                     ELSE F[i - 1] + (IF IsNaN(a[i]) THEN 0 ELSE a[i] * a[i])
               IN F[Len(a)]

\* (rr < mean - t * std) | (rr > mean + t * std) with mean = S/n and
\* std^2 = (n*Q - S^2)/n^2 over the valid values: (n*v - S)^2 > t^2 (n*Q - S^2)
sd_outlier(rr, i, sd_threshold) ==
  LET n == valid_elements_size(rr)
      S == NanSum(rr)
      Q == NanSumSq(rr)
  IN /\ ~IsNaN(rr[i])
     /\ (n * rr[i] - S) * (n * rr[i] - S) > sd_threshold * sd_threshold * (n * Q - S * S)

filter_rr_intervals_by_sd(rr, sd_threshold) ==
  [i \in DOMAIN rr |-> IF sd_outlier(rr, i, sd_threshold) THEN NaN ELSE rr[i]]

\* rr[i] > (1 + f) * m or rr[i] < (1 - f) * m with m = (prev + next) / 2 and
\* f in tenths: 20 * rr[i] against (10 +- f) * (prev + next)
relative_outlier(rr, i, tenths) ==
  /\ 1 < i /\ i < Len(rr)
  /\ ~IsNaN(rr[i - 1]) /\ ~IsNaN(rr[i + 1]) /\ ~IsNaN(rr[i])
  /\ \/ 20 * rr[i] > (10 + tenths) * (rr[i - 1] + rr[i + 1])
     \/ 20 * rr[i] < (10 - tenths) * (rr[i - 1] + rr[i + 1])

filter_rr_intervals_by_relative_mean(rr, tenths) ==
  IF Len(rr) < 3 THEN Raise("ValueError")
  ELSE Return([i \in DOMAIN rr |-> IF relative_outlier(rr, i, tenths) THEN NaN ELSE rr[i]])

\* np.interp(i, x[not_nans], rr[not_nans]) for a NaN position i: linear
\* between the nearest valid neighbours, the nearest valid value outside them
np_interp(rr, i) ==
  LET valid == {j \in DOMAIN rr : ~IsNaN(rr[j])}
      before == {j \in valid : j < i}
      after == {j \in valid : j > i}
  IN IF before = {} THEN Frac(rr[Min(after)], 1)
     ELSE IF after = {} THEN Frac(rr[Max(before)], 1)
     ELSE LET a == Max(before)
              b == Min(after)
          IN Frac(rr[a] * (b - a) + (rr[b] - rr[a]) * (i - a), b - a)

\* np.interp that leaves the positions outside the valid values NaN
np_interp_inside(rr, i) ==
  IF {j \in DOMAIN rr : ~IsNaN(rr[j]) /\ j < i} = {}
       \/ {j \in DOMAIN rr : ~IsNaN(rr[j]) /\ j > i} = {}
    THEN FracNaN
  ELSE np_interp(rr, i)

nan_fill(rr, i) == np_interp(rr, i)

\* interpolate_nan_values; the values come out as fractions.  np.interp
\* raises ValueError when no value is valid.
interpolate_nan_values(rr) ==
  IF (\E i \in DOMAIN rr : IsNaN(rr[i])) /\ (\A i \in DOMAIN rr : IsNaN(rr[i]))
    THEN Raise("ValueError")
  ELSE Return([i \in DOMAIN rr |-> IF IsNaN(rr[i]) THEN nan_fill(rr, i) ELSE Frac(rr[i], 1)])

---------------------------------------------------------------------------
(* Inputs: the tables extract_data_from_file builds, x = cumsum(y) *)

MaxTime == 3
MaxRows == 2

MeasNames == << <<"1", "r", "m", "2">>, <<"1", "r", "k", "2">>,
               <<"2", "r", "m", "2">>, <<"2", "r", "k", "2">> >>
\* the recordings' start timestamps, ms
StartTimes == <<7, 0, 20, 13>>

\* the key merge_meas gives a row: f"{meas_name}_{shift}"
Key(meas_name, shift) == <<meas_name, "_", shift>>

MakeSeries(name, xs, st) ==
  LET x == SortedSeq(xs)
  IN [x |-> x, y |-> Diffs(x), shift |-> 0, meas_name |-> name,
      starttime |-> st, endtime |-> st + x[Len(x)], duration |-> x[Len(x)],
      index |-> Key(name, 0)]

\* the time axes within 1..maxTime
TimeSets(maxTime) == (SUBSET (1..maxTime)) \ {{}}

\* the tables of 1..maxRows Series
Tables(maxRows, maxTime) ==
  UNION {{[i \in 1..n |-> MakeSeries(MeasNames[i], xs[i], StartTimes[i])] :
            xs \in [1..n -> TimeSets(maxTime)]} : n \in 1..maxRows}

OptTimes == {None} \cup {Some(t) : t \in 0..(MaxTime + 1)}

---------------------------------------------------------------------------
(* SpecTrim: trim(s, a, b), then trim of its result with the same bounds *)

InitTrim == pc = "start" /\ inp \in Tables(MaxRows, MaxTime) /\ args = <<>> /\ ret = <<>>

TrimCall ==
  /\ pc = "start"
  /\ \E start \in OptTimes, end \in OptTimes :
       /\ args' = [start |-> start, end |-> end]
       /\ ret' = <<trim(inp, start, end)>>
  /\ pc' = "trim"
  /\ UNCHANGED inp

TrimAgain ==
  /\ pc = "trim"
  /\ ~ret[1].raised
  /\ ret' = Append(ret, trim(ret[1].value, args.start, args.end))
  /\ pc' = "trim_trim"
  /\ UNCHANGED <<inp, args>>

NextTrim == TrimCall \/ TrimAgain
SpecTrim == InitTrim /\ [][NextTrim]_vars

\* every Series of the first trim kept at least one sample
RetainedNonEmpty == \A i \in DOMAIN ret[1].value : ret[1].value[i].x # <<>>

---------------------------------------------------------------------------
(* SpecValidate: one call of validate_series_df on a value that is a table *)
(* of any size, a table with a missing or wrongly typed field, an all-NaN  *)
(* array, or no table at all.                                              *)

\* "more than 3 valid elements" (line 498)
MinValid == 3

ColumnSet == {expected_columns[k] : k \in DOMAIN expected_columns}

XCells == {Cell("ndarray", [i \in 1..(MinValid + 1) |-> i]),
           Cell("ndarray", [i \in 1..MinValid |-> i]),
           Cell("list", [i \in 1..(MinValid + 1) |-> i]),
           Cell("ndarray_object", [i \in 1..(MinValid + 1) |-> i])}

YCells == {Cell("ndarray", [i \in 1..(MinValid + 1) |-> 1]),
           Cell("ndarray", [i \in 1..(MinValid + 1) |-> NaN]),
           Cell("ndarray", [i \in 1..(MinValid + 1) |-> 0])}

\* endtime - starttime: as long as the samples, or ten times as long
DurationsMs == {MinValid + 1, 10 * (MinValid + 1)}

\* a row with a deficient time array or a deficient interval array, or none
XYCells == {<<xc, yc>> \in XCells \X YCells :
              xc = Cell("ndarray", [i \in 1..(MinValid + 1) |-> i])
              \/ yc = Cell("ndarray", [i \in 1..(MinValid + 1) |-> 1])}

TypedRows ==
  {[x |-> xy[1], y |-> xy[2], shift |-> Cell("float", 0),
    meas_name |-> Cell("str", MeasNames[1]),
    starttime |-> Cell("Timestamp", 0), endtime |-> Cell("Timestamp", d),
    duration |-> Cell("float", d)] : xy \in XYCells, d \in DurationsMs}

Restrict(f, S) == [c \in S |-> f[c]]

Frames(maxRows) ==
  {[kind |-> k, columns |-> {}, index |-> <<>>, rows |-> <<>>] : k \in {"NoneType", "Series"}}
  \cup
  UNION {{[kind |-> "DataFrame", columns |-> cols, index |-> [i \in 1..n |-> i],
           rows |-> [i \in 1..n |-> Restrict(rs[i], cols)]] :
            rs \in [1..n -> TypedRows],
            cols \in {ColumnSet, ColumnSet \ {"y"}, ColumnSet \ {"shift"}}} : n \in 0..maxRows}

OptSizes == {None, Some(1), Some(2)}
\* threshold_samples = 0.7 (lines 1156, 1195, 1595)
OptThresholds == {None, Some([num |-> 7, den |-> 10])}

InitValidate == pc = "start" /\ inp \in Frames(MaxRows) /\ args = <<>> /\ ret = <<>>

ValidateCall ==
  /\ pc = "start"
  /\ \E min_size \in OptSizes, max_size \in OptSizes, threshold_samples \in OptThresholds :
       /\ args' = [min_size |-> min_size, max_size |-> max_size,
                   threshold_samples |-> threshold_samples]
       /\ ret' = <<validate_series_df(inp, min_size, max_size, threshold_samples)>>
  /\ pc' = "validate"
  /\ UNCHANGED inp

NextValidate == ValidateCall
SpecValidate == InitValidate /\ [][NextValidate]_vars

\* C8: validate never raises: for every input (a table of any size, one
\* with missing or wrongly typed fields, an all-NaN array, a value that is
\* not a table) and every min_count, max_count and sample_ratio_threshold,
\* the call returns true or false.
C8_ValidateNeverRaises ==
  pc = "validate" => (~ret[1].raised /\ ret[1].value.ok \in BOOLEAN)

\* what phase 1 has to find in a table, stated per check rather than by the
\* loop: count bounds, field presence, field types, more than 3 valid
\* elements in the time and interval arrays
StructuralFailures(df, min_size, max_size) ==
  (IF max_size # None /\ Len(df.rows) > max_size[1] THEN {Err("max_size", "", 0)} ELSE {})
  \cup (IF min_size # None /\ Len(df.rows) < min_size[1] THEN {Err("min_size", "", 0)} ELSE {})
  \cup {Err("missing", col, 0) : col \in ColumnSet \ df.columns}
  \cup {Err("type", e[1], e[2]) :
          e \in {f \in df.columns \X DOMAIN df.rows :
                   df.rows[f[2]][f[1]].type \notin expected_type(f[1])}}
  \cup {Err("valid_elements", e[1], e[2]) :
          e \in {f \in (df.columns \cap {"x", "y"}) \X DOMAIN df.rows :
                   /\ df.rows[f[2]][f[1]].type = "ndarray"
                   /\ valid_elements_size(df.rows[f[2]][f[1]].v) <= MinValid}}

\* row i has numeric time and interval arrays, a positive mean interval and
\* fewer samples than threshold * duration_ms / mean(interval)
UnderSampled(df, i, t) ==
  /\ {"x", "y", "starttime", "endtime"} \subseteq df.columns
  /\ df.rows[i]["x"].type = "ndarray" /\ df.rows[i]["y"].type = "ndarray"
  /\ NanSum(df.rows[i]["y"].v) > 0
  /\ Len(df.rows[i]["x"].v) * NanSum(df.rows[i]["y"].v) * t.den
       < t.num * (df.rows[i]["endtime"].v - df.rows[i]["starttime"].v)
           * valid_elements_size(df.rows[i]["y"].v)

\* the mean interval of row i is NaN or not positive
BadMean(df, i) ==
  /\ "y" \in df.columns /\ df.rows[i]["y"].type = "ndarray"
  /\ (valid_elements_size(df.rows[i]["y"].v) = 0 \/ NanSum(df.rows[i]["y"].v) <= 0)

SampleFailures(df, threshold_samples) ==
  IF threshold_samples = None THEN {}
  ELSE {Err("sample_ratio", "x", i) : i \in {j \in DOMAIN df.rows : UnderSampled(df, j, threshold_samples[1])}}
       \cup {Err("avg_y", "y", i) : i \in {j \in DOMAIN df.rows : BadMean(df, j)}}

Unexpected == Err("unexpected", "", 0)

\* C9 as claimed: validate accumulates all failures before returning: every
\* check is evaluated on every entry even after an earlier check failed; in
\* particular a sample-ratio violation is reported even if a count, type or
\* valid-element check also failed (calls in which no unexpected exception
\* was caught).
C9_AccumulatesAllFailures ==
  (pc = "validate" /\ inp.kind = "DataFrame" /\ Unexpected \notin Range(ret[1].value.errors))
  => /\ StructuralFailures(inp, args.min_size, args.max_size) \subseteq Range(ret[1].value.errors)
     /\ args.threshold_samples # None
          => \A i \in DOMAIN inp.rows :
               UnderSampled(inp, i, args.threshold_samples[1])
                 => Err("sample_ratio", "x", i) \in Range(ret[1].value.errors)

\* C9 as amended: validate accumulates in two phases.  Phase 1 evaluates the
\* count bounds and, for every required field, its presence and, on every
\* entry, its type and the more-than-3-valid-elements check, and reports
\* every failure; an unexpected exception in phase 1 is reported as a
\* failure and ends phase 1 there.  If phase 1 reported anything, validate
\* returns false without evaluating the sample ratio; otherwise the sample
\* ratio is evaluated on every entry and every violation is reported.
C9_TwoPhaseAccumulation ==
  (pc = "validate" /\ inp.kind = "DataFrame")
  => LET E == Range(ret[1].value.errors)
         S == StructuralFailures(inp, args.min_size, args.max_size)
     IN /\ ~ret[1].raised
        /\ ret[1].value.ok <=> (E = {})
        /\ Unexpected \notin E
             => E = (IF S = {} THEN SampleFailures(inp, args.threshold_samples) ELSE S)
        /\ Unexpected \in E
             => /\ E \ {Unexpected} \subseteq S
                /\ \A e \in E : e[1] \notin {"sample_ratio", "avg_y"}

\* a call with a threshold on a table that fails a phase-1 check and holds
\* an under-sampled entry: the sample-ratio violation is not reported
C9_Witness ==
  /\ pc = "validate" /\ inp.kind = "DataFrame" /\ args.threshold_samples # None
  /\ Unexpected \notin Range(ret[1].value.errors)
  /\ Cardinality(StructuralFailures(inp, args.min_size, args.max_size)) >= 2
  /\ \E i \in DOMAIN inp.rows :
       /\ UnderSampled(inp, i, args.threshold_samples[1])
       /\ Err("sample_ratio", "x", i) \notin Range(ret[1].value.errors)

---------------------------------------------------------------------------
(* SpecSplit: split_signal_on_gaps on one Series whose time axis may hold  *)
(* steps that are not in its intervals (a merged or gapped recording).     *)

MaxLen == 8
\* a step of the time axis larger than the largest interval
GapStep == 3
MaxK == 3

\* a Series of n samples with time steps d and one interval NaN at nan_at
\* (none when nan_at = 0), the other intervals 1
GappedSeries(n, d, nan_at) ==
  LET x == CumSum([i \in 1..n |-> IF i = 1 THEN 1 ELSE d[i]])
  IN [x |-> x, y |-> [i \in 1..n |-> IF i = nan_at THEN NaN ELSE 1],
      shift |-> 0, meas_name |-> MeasNames[1],
      starttime |-> StartTimes[1], endtime |-> StartTimes[1] + x[n],
      duration |-> x[n], index |-> Key(MeasNames[1], 0)]

GappedTables(maxLen) ==
  UNION {{<<GappedSeries(n, d, nan_at)>> :
            d \in [1..n -> {1, GapStep}], nan_at \in {0, 1, n}} : n \in 1..maxLen}

InitSplit == pc = "start" /\ inp \in GappedTables(MaxLen) /\ args = <<>> /\ ret = <<>>

SplitCall ==
  /\ pc = "start"
  /\ \E k_max_gap \in 1..MaxK :
       /\ args' = [k_max_gap |-> k_max_gap]
       /\ ret' = <<split_signal_on_gaps(inp, k_max_gap)>>
  /\ pc' = "split"
  /\ UNCHANGED inp

\* the windows a Series is trimmed to before it is split
SplitWindows == {None, Some(2), Some(2 * GapStep)}

\* trim(pair_df) and then split_signal_on_gaps on a Series of its result,
\* as calc_corr calls them (lines 1161, 1174)
SplitTrim ==
  /\ pc = "start"
  /\ \E start \in SplitWindows, end \in SplitWindows :
       /\ args' = [start |-> start, end |-> end]
       /\ ret' = <<trim(inp, start, end)>>
  /\ pc' = "trim"
  /\ UNCHANGED inp

SplitTrimmed ==
  /\ pc = "trim"
  /\ ~ret[1].raised
  /\ \E k_max_gap \in 1..MaxK :
       /\ args' = [start |-> args.start, end |-> args.end, k_max_gap |-> k_max_gap]
       /\ ret' = Append(ret, split_signal_on_gaps(ret[1].value, k_max_gap))
  /\ pc' = "trim_split"
  /\ UNCHANGED inp

NextSplit == SplitCall \/ SplitTrim \/ SplitTrimmed
SpecSplit == InitSplit /\ [][NextSplit]_vars

ColumnOf(tbl, col) == Concat([i \in DOMAIN tbl |-> tbl[i][col]])

\* C2 as claimed: split_on_gaps is a lossless partition: for every valid
\* Series and every k_max_gap the chunks' time arrays (interval arrays),
\* concatenated in returned order, are the input's time (interval) array.
C2_LosslessPartition ==
  (pc = "split" /\ Validates(inp, Some(1), Some(1), None))
  => /\ ~ret[1].raised
     /\ ColumnOf(ret[1].value, "x") = inp[1].x
     /\ ColumnOf(ret[1].value, "y") = inp[1].y

\* the samples in the same run as sample i: no step larger than max_gap
\* lies between them
RunOf(x, i, max_gap) ==
  {j \in DOMAIN x : \A m \in (Min({i, j}) + 1)..Max({i, j}) : ~ExceedsGap(x, m, max_gap)}

\* the samples whose run has more than 3 valid values in both arrays
SurvivingSamples(row, k_max_gap) ==
  LET max_gap == IF IsNaN(NanMax(row.y)) THEN NaN ELSE NanMax(row.y) * k_max_gap
  IN {i \in DOMAIN row.x :
        /\ Cardinality({j \in RunOf(row.x, i, max_gap) : ~IsNaN(row.x[j])}) > MinValid
        /\ Cardinality({j \in RunOf(row.x, i, max_gap) : ~IsNaN(row.y[j])}) > MinValid}

\* C2 as amended: the chunks, concatenated in returned order, are the input
\* arrays without the samples of the runs that have at most 3 valid values
\* in time or interval (those runs are dropped whole; nothing is duplicated
\* or reordered); when every run is such a run the input is returned
\* unsplit.  So the concatenation is the input exactly when no run, or
\* every run, fails single-row validation.
C2_PartitionOfSurvivingRuns ==
  (pc = "split" /\ Validates(inp, Some(1), Some(1), None))
  => LET keep == SurvivingSamples(inp[1], args.k_max_gap)
     IN /\ ~ret[1].raised
        /\ keep = {} => ret[1].value = inp
        /\ keep # {} => /\ ColumnOf(ret[1].value, "x") = AtIndices(inp[1].x, keep)
                        /\ ColumnOf(ret[1].value, "y") = AtIndices(inp[1].y, keep)
                        /\ \A c \in DOMAIN ret[1].value :
                             \A m \in 2..Len(ret[1].value[c].x) :
                               ret[1].value[c].x[m] - ret[1].value[c].x[m - 1]
                                 <= NanMax(inp[1].y) * args.k_max_gap

\* a valid Series of which a run is returned as a chunk and the samples of
\* a too-short run are dropped
C2_Witness ==
  /\ pc = "split" /\ Validates(inp, Some(1), Some(1), None)
  /\ ~ret[1].raised
  /\ Len(ColumnOf(ret[1].value, "x")) < Len(inp[1].x)

---------------------------------------------------------------------------
(* SpecResample: interp_pair_uniform_time on a valid pair *)

MaxGridTime == 6
MaxStep == 3

\* the pairs of Series with more than 3 samples each
ValidPairs(maxTime) ==
  {<<MakeSeries(MeasNames[1], xs1, StartTimes[1]),
     MakeSeries(MeasNames[2], xs2, StartTimes[2])>> :
     xs1 \in {t \in TimeSets(maxTime) : Cardinality(t) > MinValid},
     xs2 \in {t \in TimeSets(maxTime) : Cardinality(t) > MinValid}}

InitResample == pc = "start" /\ inp \in ValidPairs(MaxGridTime) /\ args = <<>> /\ ret = <<>>

ResampleCall ==
  /\ pc = "start"
  /\ \E ix_step \in 1..MaxStep :
       /\ args' = [ix_step |-> ix_step]
       /\ ret' = <<interp_pair_uniform_time(inp, ix_step)>>
  /\ pc' = "resample"
  /\ UNCHANGED inp

NextResample == ResampleCall
SpecResample == InitResample /\ [][NextResample]_vars

\* C3: for every valid pair and step > 0, resample_pair returns two Series
\* with identical time grids, and every grid point g satisfies
\* max(min_a, min_b) <= g <= min(max_a, max_b).
C3_GridWithinOverlap ==
  (pc = "resample" /\ Validates(inp, Some(2), Some(2), None))
  => /\ ret[1][1].x = ret[1][2].x
     /\ \A k \in DOMAIN ret[1][1].x :
          /\ Max({Min(Range(inp[1].x)), Min(Range(inp[2].x))}) <= ret[1][1].x[k]
          /\ ret[1][1].x[k] <= Min({Max(Range(inp[1].x)), Max(Range(inp[2].x))})

---------------------------------------------------------------------------
(* SpecFilter: the filter steps of filter_series on one interval array:   *)
(* filter_rr_intervals_by_sd, filter_rr_intervals_by_relative_mean,        *)
(* interpolate_nan_values (lines 1100-1104).                               *)

MaxFilterLen == 11
MaxSpecial == 2

\* a usual interval, one more than 20% above it, and a far outlying one
BaseInterval == 10
SpecialIntervals == {NaN, 13, 100}

\* the arrays of up to maxLen intervals of which at most maxSpecial are not
\* the usual one
IntervalArrays(maxLen, maxSpecial) ==
  UNION {UNION {{[i \in 1..n |-> IF i \in P THEN v[i] ELSE BaseInterval] :
                   v \in [P -> SpecialIntervals]} :
                  P \in {Q \in SUBSET (1..n) : Cardinality(Q) <= maxSpecial}} :
           n \in 1..maxLen}

InitFilter == pc = "start" /\ inp \in IntervalArrays(MaxFilterLen, MaxSpecial)
              /\ args = <<>> /\ ret = <<>>

SdFilterCall ==
  /\ pc = "start"
  /\ ret' = <<Return(filter_rr_intervals_by_sd(inp, SdThreshold))>>
  /\ pc' = "filter_sd"
  /\ UNCHANGED <<inp, args>>

RelativeFilterCall ==
  /\ pc = "filter_sd"
  /\ ret' = Append(ret, filter_rr_intervals_by_relative_mean(ret[1].value, ThresholdFactorTenths))
  /\ pc' = "filter_relative"
  /\ UNCHANGED <<inp, args>>

InterpolateCall ==
  /\ pc = "filter_relative"
  /\ ~ret[2].raised
  /\ ret' = Append(ret, interpolate_nan_values(ret[2].value))
  /\ pc' = "interpolate"
  /\ UNCHANGED <<inp, args>>

NextFilter == SdFilterCall \/ RelativeFilterCall \/ InterpolateCall
SpecFilter == InitFilter /\ [][NextFilter]_vars

\* C4: for every interval array of a valid Series (more than 3 non-NaN
\* values) the outlier filters followed by interpolate_nan return an array
\* of the input's length without NaN; neither the filters nor the
\* interpolation fail.
C4_FilterThenInterpolate ==
  (valid_elements_size(inp) > MinValid)
  => /\ pc = "filter_relative" => ~ret[2].raised
     /\ pc = "interpolate"
          => /\ ~ret[3].raised
             /\ Len(ret[3].value) = Len(inp)
             /\ \A i \in DOMAIN ret[3].value : ret[3].value[i] # FracNaN

\* a valid array of which the 3-SD filter removed the first value and the
\* relative filter another one, interpolated
C4_Witness ==
  /\ pc = "interpolate" /\ valid_elements_size(inp) > MinValid
  /\ ~IsNaN(inp[1]) /\ IsNaN(ret[1].value[1])
  /\ \E i \in DOMAIN inp : ~IsNaN(ret[1].value[i]) /\ IsNaN(ret[2].value[i])
  /\ ~ret[3].raised

---------------------------------------------------------------------------
(* Floating point.  x and shift_time_ms are float64; an addition returns    *)
(* the representable value nearest the exact sum, ties to the even          *)
(* significand.  The model keeps the rounding and scales the significand    *)
(* from 53 bits down to MantissaBits, over whole numbers: wide enough to    *)
(* hold a minute of milliseconds exactly, as float64 does.                  *)

MantissaBits == 16

RECURSIVE Pow2(_)
Pow2(n) == IF n = 0 THEN 1 ELSE 2 * Pow2(n - 1)

\* the spacing of the representable values around magnitude a
RECURSIVE Quantum(_)
Quantum(a) == IF a < Pow2(MantissaBits) THEN 1 ELSE 2 * Quantum(a \div 2)

RoundHalfEven(a, q) ==
  LET lo == a \div q
      r == a % q
  IN IF 2 * r < q THEN lo
     ELSE IF 2 * r > q THEN lo + 1
     ELSE IF lo % 2 = 0 THEN lo ELSE lo + 1

\* the float nearest the exact value v
fl(v) == LET a == Abs(v)
             q == Quantum(a)
             m == RoundHalfEven(a, q) * q
         IN IF v < 0 THEN -m ELSE m

\* np.cumsum of a float array
RECURSIVE FloatCumSum(_)
FloatCumSum(y) ==
  IF y = <<>> THEN <<>>
  ELSE LET p == FloatCumSum(SubSeq(y, 1, Len(y) - 1))
       IN Append(p, IF p = <<>> THEN y[1] ELSE fl(p[Len(p)] + y[Len(y)]))

---------------------------------------------------------------------------
(* shift_series *)

MsPerSecond == 1000

\* int(pd.to_timedelta(ms, unit='ms').total_seconds()): int() truncates
\* toward zero
whole_seconds(ms) ==
  IF ms >= 0 THEN ms \div MsPerSecond ELSE -((-ms) \div MsPerSecond)

\* x + |shift_time_ms|: a shift that always moves forward
shifted_x_forward(x, shift_time_ms) ==
  [i \in DOMAIN x |-> fl(x[i] + Abs(shift_time_ms))]

\* new_x = series_df.iloc[i]['x'] + shift_time_ms
shifted_x(x, shift_time_ms) == [i \in DOMAIN x |-> fl(x[i] + shift_time_ms)]

shift_row(row, shift_time_ms) ==
  LET new_x == shifted_x(row.x, shift_time_ms)
      new_shift == whole_seconds(shift_time_ms)
      new_index == Key(row.meas_name, new_shift)
  IN update_series(row, Some(new_x), None, Some(new_shift), None, None, None,
                   None, Some(new_index))

shift_series(series_df, shift_time_ms) ==
  [i \in DOMAIN series_df |-> shift_row(series_df[i], shift_time_ms)]

---------------------------------------------------------------------------
(* SpecShift: shift(s, m1), then shift of its result by m2, then            *)
(* shift(s, m1 + m2), on a pair of Series as the shift search passes it.    *)

MaxOffset == 2

\* a Series of four intervals d, 1, 1, 1
ShiftSeries(name, d, st) ==
  LET y == <<d, 1, 1, 1>>
      x == FloatCumSum(y)
  IN [x |-> x, y |-> y, shift |-> 0, meas_name |-> name,
      starttime |-> st, endtime |-> st + x[Len(x)], duration |-> x[Len(x)],
      index |-> Key(name, 0)]

\* how far below the end of the whole floats the first intervals start
MaxBelow == 15

\* the pairs of Series whose first interval is one of the last floats up
\* to 2^bits, where the spacing of the floats turns from 1 to 2
ShiftPairs(bits) ==
  {[i \in 1..2 |-> ShiftSeries(MeasNames[i], d[i], StartTimes[i])] :
     d \in [1..2 -> (Pow2(bits) - MaxBelow)..Pow2(bits)]}

Offsets(maxOffset) == (-maxOffset)..maxOffset

InitShift == pc = "start" /\ inp \in ShiftPairs(MantissaBits)
             /\ args = <<>> /\ ret = <<>>

ShiftFirst ==
  /\ pc = "start"
  /\ \E m1 \in Offsets(MaxOffset), m2 \in Offsets(MaxOffset) :
       /\ args' = [m1 |-> m1, m2 |-> m2]
       /\ ret' = <<shift_series(inp, m1)>>
  /\ pc' = "shift_1"
  /\ UNCHANGED inp

ShiftSecond ==
  /\ pc = "shift_1"
  /\ ret' = Append(ret, shift_series(ret[1], args.m2))
  /\ pc' = "shift_2"
  /\ UNCHANGED <<inp, args>>

ShiftSum ==
  /\ pc = "shift_2"
  /\ ret' = Append(ret, shift_series(inp, fl(args.m1 + args.m2)))
  /\ pc' = "shift_sum"
  /\ UNCHANGED <<inp, args>>

NextShift == ShiftFirst \/ ShiftSecond \/ ShiftSum
SpecShift == InitShift /\ [][NextShift]_vars

\* C5: shifts compose additively on the time axis: the time array of
\* shift(shift(s, m1), m2) equals the time array of shift(s, m1 + m2)
\* element by element.
C5_ShiftsCompose ==
  pc = "shift_sum"
  => \A r \in DOMAIN inp : ret[2][r].x = ret[3][r].x

\* no addition of the three shifts was rounded
Representable(v) == fl(v) = v
ExactSums ==
  /\ Representable(args.m1 + args.m2)
  /\ \A r \in DOMAIN inp : \A i \in DOMAIN inp[r].x :
       /\ Representable(inp[r].x[i] + args.m1)
       /\ Representable(ret[1][r].x[i] + args.m2)
       /\ Representable(inp[r].x[i] + args.m1 + args.m2)

\* the largest magnitude met in the three shifts
LargestMagnitude ==
  Max({Abs(args.m1), Abs(args.m2), Abs(args.m1 + args.m2)}
      \cup UNION {UNION {{Abs(inp[r].x[i]), Abs(ret[1][r].x[i]),
                          Abs(ret[2][r].x[i]), Abs(ret[3][r].x[i])} :
                           i \in DOMAIN inp[r].x} : r \in DOMAIN inp})

\* C5 (amended): the two time arrays are equal element by element when no
\* addition involved was rounded (whole-millisecond times and offsets well
\* inside the significand), and otherwise differ by at most two spacings
\* of the floats at the largest magnitude met.
C5_ShiftsComposeUpToRounding ==
  pc = "shift_sum"
  => /\ ExactSums => \A r \in DOMAIN inp : ret[2][r].x = ret[3][r].x
     /\ \A r \in DOMAIN inp : \A i \in DOMAIN inp[r].x :
          Abs(ret[2][r].x[i] - ret[3][r].x[i]) <= 2 * Quantum(LargestMagnitude)

\* two non-zero offsets of opposite sign composed without rounding
C5_Witness ==
  /\ pc = "shift_sum" /\ ExactSums
  /\ args.m1 > 0 /\ args.m2 < 0 /\ args.m1 + args.m2 # 0
  /\ ret[2][1].x # inp[1].x
  /\ ret[2][1].x = ret[3][1].x

---------------------------------------------------------------------------
(* calculate_pair_time_difference and time_align_pair *)

\* (time1 - time2).total_seconds() * 1000 of the pair's two rows
calculate_pair_time_difference(pair_df, time) ==
  IF Len(pair_df) < 2 THEN Raise("IndexError")
  ELSE IF time = "starttime"
    THEN Return(pair_df[1].starttime - pair_df[2].starttime)
  ELSE IF time = "endtime"
    THEN Return(pair_df[1].endtime - pair_df[2].endtime)
  ELSE Raise("ValueError")

\* an alignment that leaves shift and index as shift_series set them
time_align_pair_no_restore(pair_df, time_ms_threshold) ==
  LET diff_start_time_ms == calculate_pair_time_difference(pair_df, "starttime")
  IN IF diff_start_time_ms.raised THEN diff_start_time_ms
     ELSE Return(<<IF diff_start_time_ms.value < -time_ms_threshold
                     THEN shift_series(<<pair_df[1]>>,
                            Abs(diff_start_time_ms.value) - time_ms_threshold)[1]
                   ELSE pair_df[1],
                   IF diff_start_time_ms.value > time_ms_threshold
                     THEN shift_series(<<pair_df[2]>>,
                            diff_start_time_ms.value - time_ms_threshold)[1]
                   ELSE pair_df[2]>>)

\* an alignment that moves the first Series whichever started later
time_align_pair_first(pair_df, time_ms_threshold) ==
  LET diff_start_time_ms == calculate_pair_time_difference(pair_df, "starttime")
  IN IF diff_start_time_ms.raised THEN diff_start_time_ms
     ELSE Return(<<update_series(
                     IF Abs(diff_start_time_ms.value) > time_ms_threshold
                       THEN shift_series(<<pair_df[1]>>,
                              Abs(diff_start_time_ms.value) - time_ms_threshold)[1]
                     ELSE pair_df[1],
                     None, None, Some(pair_df[1].shift), None, None, None, None,
                     Some(pair_df[1].index)),
                   pair_df[2]>>)

\* lines 911-949
time_align_pair(pair_df, time_ms_threshold) ==
  LET diff_start_time_ms == calculate_pair_time_difference(pair_df, "starttime")
  IN IF diff_start_time_ms.raised THEN diff_start_time_ms
     ELSE
       LET diff == diff_start_time_ms.value
           index_serie_1 == pair_df[1].index
           index_serie_2 == pair_df[2].index
           shift_serie_1 == pair_df[1].shift
           shift_serie_2 == pair_df[2].shift
           serie_1 == IF diff <= time_ms_threshold /\ diff < -time_ms_threshold
                        THEN shift_series(<<pair_df[1]>>, Abs(diff) - time_ms_threshold)[1]
                      ELSE pair_df[1]
           serie_2 == IF diff > time_ms_threshold
                        THEN shift_series(<<pair_df[2]>>, diff - time_ms_threshold)[1]
                      ELSE pair_df[2]
       IN Return(<<update_series(serie_1, None, None, Some(shift_serie_1), None,
                                 None, None, None, Some(index_serie_1)),
                   update_series(serie_2, None, None, Some(shift_serie_2), None,
                                 None, None, None, Some(index_serie_2))>>)

---------------------------------------------------------------------------
(* SpecAlign: time_align_pair on a pair, then the start time difference of  *)
(* the pair it returned.                                                    *)

MaxStart == 4
MaxThreshold == 2

\* the pairs of Series recorded from start times 0..maxStart, or two
\* seconds later
AlignPairs(maxStart) ==
  {[i \in 1..2 |-> ShiftSeries(MeasNames[i], 1, st[i])] :
     st \in [1..2 -> (0..maxStart) \cup {2 * MsPerSecond}]}

InitAlign == pc = "start" /\ inp \in AlignPairs(MaxStart)
             /\ args = <<>> /\ ret = <<>>

AlignCall ==
  /\ pc = "start"
  /\ \E time_ms_threshold \in 0..MaxThreshold :
       /\ args' = [time_ms_threshold |-> time_ms_threshold]
       /\ ret' = <<time_align_pair(inp, time_ms_threshold)>>
  /\ pc' = "time_align"
  /\ UNCHANGED inp

DifferenceCall ==
  /\ pc = "time_align"
  /\ ~ret[1].raised
  /\ ret' = Append(ret, calculate_pair_time_difference(ret[1].value, "starttime"))
  /\ pc' = "time_difference"
  /\ UNCHANGED <<inp, args>>

NextAlign == AlignCall \/ DifferenceCall
SpecAlign == InitAlign /\ [][NextAlign]_vars

\* C6: for every valid pair and every threshold_ms >= 0, the pair returned
\* by time_align(pair, threshold_ms) has an absolute difference between the
\* two Series' start_time values of at most threshold_ms.
C6_AlignedWithinThreshold ==
  pc = "time_difference"
  => /\ ~ret[2].raised
     /\ Abs(ret[2].value) <= args.time_ms_threshold

---------------------------------------------------------------------------
(* The shift search of process_rr_data for one pair: the correlation        *)
(* results it collects and the best one it keeps.  pearsonr is a library    *)
(* call on the resampled data; its value is drawn.  A coefficient is a      *)
(* fraction <<n, d>> or FracNaN.                                            *)

FracAbs(f) == <<Abs(f[1]), f[2]>>
FracLeq(f, g) == f[1] * g[2] <= g[1] * f[2]

\* the row calc_corr returns: pd.DataFrame({...}) of one row, whose index
\* label is the default 0
calc_corr_result(corr, serie_1_meas_name, serie_2_meas_name, serie_1_shift, serie_2_shift) ==
  [corr |-> corr,
   serie_1_meas_name |-> serie_1_meas_name, serie_2_meas_name |-> serie_2_meas_name,
   serie_1_shift |-> serie_1_shift, serie_2_shift |-> serie_2_shift,
   shift_diff |-> serie_1_shift - serie_2_shift, index |-> 0]

\* pd.concat(calc_corr_results, ignore_index=False): the rows in order,
\* labels kept, None entries dropped
RECURSIVE concat_results(_)
concat_results(calc_corr_results) ==
  IF calc_corr_results = <<>> THEN <<>>
  ELSE Head(calc_corr_results) \o concat_results(Tail(calc_corr_results))

\* calc_corr_results_df['corr'].abs().max(): NaN is skipped
max_abs(rows) ==
  LET defined == {FracAbs(rows[i].corr) : i \in DOMAIN rows} \ {FracNaN}
  IN IF defined = {} THEN FracNaN
     ELSE CHOOSE m \in defined : \A f \in defined : FracLeq(f, m)

\* max_corr_rows['shift_diff'].abs().idxmin(): the label of the first row
\* of least |shift_diff|
idxmin_abs_shift_diff(rows) ==
  LET least == Min({Abs(rows[i].shift_diff) : i \in DOMAIN rows})
      first == Min({i \in DOMAIN rows : Abs(rows[i].shift_diff) = least})
  IN rows[first].index

\* lines 1666-1679: the rows kept as the pair's best result
best_of(calc_corr_results) ==
  IF calc_corr_results = <<>> THEN Return(<<>>)
  ELSE IF concat_results(calc_corr_results) = <<>> THEN Raise("ValueError")
  ELSE
    LET calc_corr_results_df == concat_results(calc_corr_results)
        max_abs_corr == max_abs(calc_corr_results_df)
        IsMax(row) == row.corr # FracNaN /\ FracAbs(row.corr) = max_abs_corr
        max_corr_rows == SelectSeq(calc_corr_results_df, IsMax)
    IN IF Len(max_corr_rows) > 1
         THEN LET label == idxmin_abs_shift_diff(max_corr_rows)
                  HasLabel(row) == row.index = label
              IN Return(SelectSeq(max_corr_rows, HasLabel))
       ELSE IF max_corr_rows = <<>> THEN Raise("IndexError")
       ELSE Return(<<max_corr_rows[1]>>)

---------------------------------------------------------------------------
(* SpecSearch: the base correlation, one iteration of the shift loop per    *)
(* step, and the selection.  ret[1] is calc_corr_results, an entry being    *)
(* <<>> for None and <<row>> for a result; ret[2] is the selection.         *)

\* the shift steps tried, in seconds (range(1000, 5001, 1000) in the code)
MaxShiftSteps == 2

CorrValues == {FracNaN, Frac(-1, 1), Frac(1, 2), Frac(1, 1)}

\* the shift fields of the trimmed pair
PairShifts == {<<0, 0>>, <<1, 0>>, <<0, 1>>}

\* what one calc_corr call contributes: nothing, or a result
Outcomes(serie_1_shift, serie_2_shift) ==
  {None} \cup {Some(calc_corr_result(c, MeasNames[1], MeasNames[2],
                                       serie_1_shift, serie_2_shift)) :
                 c \in CorrValues}

InitSearch == pc = "start" /\ inp \in PairShifts /\ args = <<>> /\ ret = <<>>

\* lines 1621-1622: the base result is appended whatever it is
BaseCorr ==
  /\ pc = "start"
  /\ \E e \in Outcomes(inp[1], inp[2]) : ret' = << <<e>> >>
  /\ args' = [shift_step |-> 1]
  /\ pc' = "shift_search"
  /\ UNCHANGED inp

\* lines 1634-1663: one shift step; a variant that fails validation or
\* whose calc_corr returns None adds nothing
ShiftStep ==
  /\ pc = "shift_search"
  /\ args.shift_step <= MaxShiftSteps
  /\ LET new_shift == whole_seconds(args.shift_step * MsPerSecond)
     IN \E e1 \in Outcomes(new_shift, inp[2]), e2 \in Outcomes(inp[1], new_shift) :
          ret' = <<ret[1] \o (IF e1 = None THEN <<>> ELSE <<e1>>)
                          \o (IF e2 = None THEN <<>> ELSE <<e2>>)>>
  /\ args' = [shift_step |-> args.shift_step + 1]
  /\ UNCHANGED <<pc, inp>>

SelectBest ==
  /\ pc = "shift_search"
  /\ args.shift_step > MaxShiftSteps
  /\ ret' = <<ret[1], best_of(ret[1])>>
  /\ pc' = "select"
  /\ UNCHANGED <<inp, args>>

NextSearch == BaseCorr \/ ShiftStep \/ SelectBest
SpecSearch == InitSearch /\ [][NextSearch]_vars

\* the candidate set: the results collected for the pair
Candidates == concat_results(ret[1])

\* C7: best-of selection: when the candidate set is non-empty (and holds a
\* coefficient that is a number), exactly one candidate is selected, its
\* |corr| is the maximum over the candidate set, and when several
\* candidates attain that maximum the selected one has the minimum
\* |shift_diff| among them.
C7_BestOfSelection ==
  (pc = "select" /\ \E i \in DOMAIN Candidates : Candidates[i].corr # FracNaN)
  => /\ ~ret[2].raised
     /\ Len(ret[2].value) = 1
     /\ \A i \in DOMAIN Candidates :
          Candidates[i].corr # FracNaN
            => /\ FracLeq(FracAbs(Candidates[i].corr), FracAbs(ret[2].value[1].corr))
               /\ FracAbs(Candidates[i].corr) = FracAbs(ret[2].value[1].corr)
                    => Abs(ret[2].value[1].shift_diff) <= Abs(Candidates[i].shift_diff)

---------------------------------------------------------------------------
(* extract_numeric_suffix and find_pairs *)

Digits == <<"0", "1", "2", "3", "4", "5", "6", "7", "8", "9">>
IsDigit(c) == \E d \in DOMAIN Digits : Digits[d] = c
DigitValue(c) == (CHOOSE d \in DOMAIN Digits : Digits[d] = c) - 1

\* the match of r'\d+$': the longest run of digits ending the text
RECURSIVE DigitSuffix(_)
DigitSuffix(text) ==
  IF text = <<>> \/ ~IsDigit(text[Len(text)]) THEN <<>>
  ELSE Append(DigitSuffix(SubSeq(text, 1, Len(text) - 1)), text[Len(text)])

\* int(match.group())
RECURSIVE ToInt(_)
ToInt(digits) ==
  IF digits = <<>> THEN 0
  ELSE 10 * ToInt(SubSeq(digits, 1, Len(digits) - 1)) + DigitValue(digits[Len(digits)])

\* a suffix that counts a missing number as 0
extract_numeric_suffix_or_zero(text) == Some(ToInt(DigitSuffix(text)))

extract_numeric_suffix(text) ==
  LET match == DigitSuffix(text)
  IN IF match # <<>> THEN Some(ToInt(match)) ELSE None

\* text[:2]
FirstTwo(text) == SubSeq(text, 1, Min({2, Len(text)}))

\* the condition of lines 821-824 on rows i and j, past its index reads
IsPair(series_df, i, j, serie_1_letter_suffix, serie_2_letter_suffix) ==
  LET name_1 == series_df[i].meas_name
      name_2 == series_df[j].meas_name
      serie_1_numeric_suffix == extract_numeric_suffix(name_1)
      serie_2_numeric_suffix == extract_numeric_suffix(name_2)
  IN /\ FirstTwo(name_1) = FirstTwo(name_2)
     /\ name_1[3] = serie_1_letter_suffix /\ name_2[3] = serie_2_letter_suffix
     /\ serie_1_numeric_suffix # None /\ serie_2_numeric_suffix # None
     /\ serie_1_numeric_suffix = serie_2_numeric_suffix

\* meas_name[2] of a name shorter than three characters, read once the
\* conjuncts before it hold
ReadsPastName(series_df, i, j, serie_1_letter_suffix) ==
  LET name_1 == series_df[i].meas_name
      name_2 == series_df[j].meas_name
  IN /\ FirstTwo(name_1) = FirstTwo(name_2)
     /\ \/ Len(name_1) < 3
        \/ name_1[3] = serie_1_letter_suffix /\ Len(name_2) < 3

\* the pairs and the unmatched names, as sets (the lists are built from
\* sets, in no particular order).  With index = TRUE the pairs hold index
\* labels, which are no meas_name, so no name is taken off the unmatched.
find_pairs(series_df, serie_1_letter_suffix, serie_2_letter_suffix, index) ==
  IF \E i \in DOMAIN series_df, j \in DOMAIN series_df :
       ReadsPastName(series_df, i, j, serie_1_letter_suffix)
    THEN Raise("IndexError")
  ELSE
    LET matches == {ij \in (DOMAIN series_df) \X (DOMAIN series_df) :
                      IsPair(series_df, ij[1], ij[2], serie_1_letter_suffix,
                             serie_2_letter_suffix)}
        matching_pairs ==
          IF index THEN {<<series_df[ij[1]].index, series_df[ij[2]].index>> : ij \in matches}
          ELSE {<<series_df[ij[1]].meas_name, series_df[ij[2]].meas_name>> : ij \in matches}
        all_meas_names == {series_df[i].meas_name : i \in DOMAIN series_df}
        unmatched_meas ==
          IF index THEN all_meas_names
          ELSE (all_meas_names \ {pair[1] : pair \in matching_pairs})
                 \ {pair[2] : pair \in matching_pairs}
    IN Return([matching_pairs |-> matching_pairs, unmatched_meas |-> unmatched_meas])

---------------------------------------------------------------------------
(* SpecPairs: one call of find_pairs with the default role letters on a     *)
(* table of named Series.                                                   *)

MaxNames == 2

\* measurement names: two leading characters, the role letter, and a
\* numeric suffix or none; and one name that stops before the role letter
Names ==
  {p \o <<r>> \o n : p \in {<<"2", "o">>, <<"1", "r">>}, r \in {"m", "k"},
                     n \in {<<>>, <<"2">>, <<"0", "2">>, <<"3">>}}
  \cup {<<"2", "o">>}

NamedTables(maxNames) ==
  UNION {{[i \in 1..n |-> ShiftSeries(names[i], 1, 0)] : names \in [1..n -> Names]} :
           n \in 1..maxNames}

InitPairs == pc = "start" /\ inp \in NamedTables(MaxNames)
             /\ args = <<>> /\ ret = <<>>

FindPairsCall ==
  /\ pc = "start"
  /\ \E index \in BOOLEAN :
       /\ args' = [index |-> index]
       /\ ret' = <<find_pairs(inp, "m", "k", index)>>
  /\ pc' = "find_pairs"
  /\ UNCHANGED inp

NextPairs == FindPairsCall
SpecPairs == InitPairs /\ [][NextPairs]_vars

\* the table holds exactly two Series, named a and b, and names were asked
\* for
CalledOn(a, b) ==
  /\ pc = "find_pairs" /\ ~args.index
  /\ Len(inp) = 2 /\ inp[1].meas_name = a /\ inp[2].meas_name = b

\* C10: for a table holding exactly two valid Series named "2om" and
\* "2ok", find_pairs with role suffixes 'm' and 'k' returns exactly one
\* pair ("2om", "2ok") and an empty list of unmatched names.
C10_TwoNamesOnePair ==
  CalledOn(<<"2", "o", "m">>, <<"2", "o", "k">>)
  => /\ ~ret[1].raised
     /\ ret[1].value.matching_pairs = {<< <<"2", "o", "m">>, <<"2", "o", "k">> >>}
     /\ ret[1].value.unmatched_meas = {}

\* C10 (amended): "2om" and "2ok" end in no number, so find_pairs returns
\* no pair and both names as unmatched; "2om2" and "2ok2" give exactly one
\* pair ("2om2", "2ok2") and no unmatched name; and every pair returned
\* joins two names ending in the same number.
C10_PairsNeedNumericSuffix ==
  /\ CalledOn(<<"2", "o", "m">>, <<"2", "o", "k">>)
       => /\ ~ret[1].raised
          /\ ret[1].value.matching_pairs = {}
          /\ ret[1].value.unmatched_meas = {<<"2", "o", "m">>, <<"2", "o", "k">>}
  /\ CalledOn(<<"2", "o", "m", "2">>, <<"2", "o", "k", "2">>)
       => /\ ~ret[1].raised
          /\ ret[1].value.matching_pairs
               = {<< <<"2", "o", "m", "2">>, <<"2", "o", "k", "2">> >>}
          /\ ret[1].value.unmatched_meas = {}
  /\ (pc = "find_pairs" /\ ~args.index /\ ~ret[1].raised)
       => \A pair \in ret[1].value.matching_pairs :
            /\ DigitSuffix(pair[1]) # <<>> /\ DigitSuffix(pair[2]) # <<>>
            /\ ToInt(DigitSuffix(pair[1])) = ToInt(DigitSuffix(pair[2]))

\* find_pairs has returned for the table of "2om" and "2ok"
C10_Witness ==
  /\ CalledOn(<<"2", "o", "m">>, <<"2", "o", "k">>)
  /\ ~ret[1].raised
  /\ ret[1].value.matching_pairs = {}

---------------------------------------------------------------------------
(* SpecSplitJump: split_signal_on_gaps on a Series of given intervals whose *)
(* time axis has one step larger than k_max_gap times the largest interval. *)

MaxJumpExtra == 2

\* the intervals of the six-sample scenario, and eight with the jump's room
SixIntervals == <<1, 1, 1, 50, 1, 1>>
EightIntervals == <<1, 1, 1, 1, 50, 1, 1, 1>>

\* the Series of intervals y whose time axis steps by jump, not by the
\* interval, after sample p
JumpSeries(y, p, jump) ==
  LET x == CumSum([i \in DOMAIN y |-> IF i = p + 1 THEN jump ELSE y[i]])
  IN [x |-> x, y |-> y, shift |-> 0, meas_name |-> MeasNames[1],
      starttime |-> StartTimes[1], endtime |-> StartTimes[1] + x[Len(x)],
      duration |-> x[Len(x)], index |-> Key(MeasNames[1], 0)]

JumpTables(maxJumpExtra) ==
  {<<JumpSeries(y, p, DefaultKMaxGap * 50 + e)>> :
     y \in {SixIntervals, EightIntervals}, p \in 1..7, e \in 1..maxJumpExtra}
  \ {<<JumpSeries(SixIntervals, p, DefaultKMaxGap * 50 + e)>> :
       p \in 6..7, e \in 1..maxJumpExtra}

InitSplitJump == pc = "start" /\ inp \in JumpTables(MaxJumpExtra)
                 /\ args = <<>> /\ ret = <<>>

SplitJumpCall ==
  /\ pc = "start"
  /\ \E k_max_gap \in 1..DefaultKMaxGap :
       /\ args' = [k_max_gap |-> k_max_gap]
       /\ ret' = <<split_signal_on_gaps(inp, k_max_gap)>>
  /\ pc' = "split"
  /\ UNCHANGED inp

NextSplitJump == SplitJumpCall
SpecSplitJump == InitSplitJump /\ [][NextSplitJump]_vars

\* the call of the scenario: intervals y, k_max_gap = 5
JumpCalled(y) == pc = "split" /\ inp[1].y = y /\ args.k_max_gap = DefaultKMaxGap

\* the number of samples before the jump
JumpAt == CHOOSE p \in 1..(Len(inp[1].x) - 1) :
            inp[1].x[p + 1] - inp[1].x[p] > DefaultKMaxGap * 50

\* C11: split_on_gaps with k_max_gap = 5 on a Series whose intervals are
\* [1,1,1,50,1,1] and whose time array has exactly one step greater than
\* 250 returns exactly 2 chunks whose concatenated arrays equal the
\* original arrays.
C11_TwoChunks ==
  JumpCalled(SixIntervals)
  => /\ ~ret[1].raised
     /\ Len(ret[1].value) = 2
     /\ ColumnOf(ret[1].value, "x") = inp[1].x
     /\ ColumnOf(ret[1].value, "y") = inp[1].y

\* C11 (amended): on the six-sample Series one of the two runs always has
\* at most 3 samples and fails validation, so exactly one row is returned:
\* the run of more than 3 samples when there is one (the other run's
\* samples are lost), else the input unsplit.  Two chunks whose
\* concatenation is the input are returned when both runs have more than 3
\* samples, as on eight samples cut in the middle.
C11_OneRowOfSix ==
  /\ JumpCalled(SixIntervals)
       => /\ ~ret[1].raised
          /\ Len(ret[1].value) = 1
          /\ ret[1].value[1].x =
               (IF JumpAt > 3 THEN SubSeq(inp[1].x, 1, JumpAt)
                ELSE IF JumpAt < 3 THEN SubSeq(inp[1].x, JumpAt + 1, 6)
                ELSE inp[1].x)
          /\ ret[1].value[1].y =
               (IF JumpAt > 3 THEN SubSeq(inp[1].y, 1, JumpAt)
                ELSE IF JumpAt < 3 THEN SubSeq(inp[1].y, JumpAt + 1, 6)
                ELSE inp[1].y)
  /\ (JumpCalled(EightIntervals) /\ JumpAt = 4)
       => /\ ~ret[1].raised
          /\ Len(ret[1].value) = 2
          /\ ColumnOf(ret[1].value, "x") = inp[1].x
          /\ ColumnOf(ret[1].value, "y") = inp[1].y

\* the six-sample Series cut into runs of 3 and 3 came back unsplit
C11_Witness ==
  /\ JumpCalled(SixIntervals) /\ JumpAt = 3
  /\ ~ret[1].raised /\ ret[1].value = inp

---------------------------------------------------------------------------
(* merge_meas *)

\* the characters of a name in code point order
CodePoints == Digits \o <<"_", "a", "b", "c", "d", "e", "f", "g", "h", "i",
                          "j", "k", "l", "m", "n", "o", "p", "q", "r", "s",
                          "t", "u", "v", "w", "x", "y", "z">>
CodePoint(c) == CHOOSE i \in DOMAIN CodePoints : CodePoints[i] = c

\* a < b for two strings
RECURSIVE StrLess(_, _)
StrLess(a, b) ==
  IF b = <<>> THEN FALSE
  ELSE IF a = <<>> THEN TRUE
  ELSE IF a[1] # b[1] THEN CodePoint(a[1]) < CodePoint(b[1])
  ELSE StrLess(Tail(a), Tail(b))

\* series_df.sort_values(by='starttime'): the row positions in start time
\* order, rows of equal start time in their table order
sorted_by_starttime(series_df) ==
  LET before(i, j) == \/ series_df[i].starttime < series_df[j].starttime
                      \/ series_df[i].starttime = series_df[j].starttime /\ i < j
      rank(i) == Cardinality({j \in DOMAIN series_df : before(j, i)}) + 1
  IN [k \in DOMAIN series_df |->
        series_df[CHOOSE i \in DOMAIN series_df : rank(i) = k]]

\* the group keys of groupby('meas_name'), sorted
RECURSIVE sorted_names(_)
sorted_names(S) ==
  IF S = {} THEN <<>>
  ELSE LET m == CHOOSE a \in S : \A b \in S \ {a} : StrLess(a, b)
       IN <<m>> \o sorted_names(S \ {m})

\* the rows of the group, in the table's order
group_of(series_df, meas_name) ==
  SelectSeq(series_df, LAMBDA row : row.meas_name = meas_name)

\* Doubles near a whole number of milliseconds: [ms, eps] is the value
\* ms + eps * 2^-62, which holds every double within one of a positive
\* whole number below 2^13 exactly.
RECURSIVE Log2Floor(_)
Log2Floor(t) == IF t < 2 THEN 0 ELSE 1 + Log2Floor(t \div 2)

RECURSIVE Pow2Mod(_, _)
Pow2Mod(n, m) == IF n = 0 THEN 1 % m ELSE (2 * Pow2Mod(n - 1, m)) % m

\* the binary exponent of d / 1000 for a whole d >= 1
seconds_exponent(d) ==
  IF d >= MsPerSecond THEN Log2Floor(d \div MsPerSecond)
  ELSE 0 - Min({n \in 1..10 : MsPerSecond <= d * Pow2(n)})

\* the binary exponent of the doubles between ms + eps * 2^-62 and ms
binade(ms, eps) ==
  IF eps < 0 /\ ms = Pow2(Log2Floor(ms)) THEN Log2Floor(ms) - 1 ELSE Log2Floor(ms)

\* a count of units rounded to the nearest multiple of g, ties to even
nearest_even(a, g) ==
  IF 2 * (a % g) < g THEN (a \div g) * g
  ELSE IF 2 * (a % g) > g THEN ((a \div g) + 1) * g
  ELSE IF (a \div g) % 2 = 0 THEN (a \div g) * g
  ELSE ((a \div g) + 1) * g

\* the double nearest to ms + eps * 2^-62
round_double(ms, eps) ==
  IF ms = 0 \/ eps = 0 THEN [ms |-> ms, eps |-> 0]
  ELSE IF eps > 0
    THEN [ms |-> ms, eps |-> nearest_even(eps, Pow2(binade(ms, eps) + 10))]
  ELSE [ms |-> ms, eps |-> 0 - nearest_even(0 - eps, Pow2(binade(ms, eps) + 10))]

\* the remainder of d * 2^(52 - e) / 1000: what the division d / 1000
\* rounds away (below 500) or adds (above 500) in the last place
division_remainder(d) ==
  ((d % MsPerSecond) * Pow2Mod(52 - seconds_exponent(d), MsPerSecond)) % MsPerSecond

\* line 739: x.total_seconds() * 1000 for a difference of d ms, d >= 0:
\* total_seconds() is the double nearest to d / 1000, and its product
\* with 1000 is rounded to a double again
total_seconds_times_1000(d) ==
  IF d = 0 \/ division_remainder(d) = 0 THEN [ms |-> d, eps |-> 0]
  ELSE IF division_remainder(d) < 500
    THEN round_double(d, 0 - division_remainder(d) * Pow2(seconds_exponent(d) + 10))
  ELSE round_double(d, (MsPerSecond - division_remainder(d)) * Pow2(seconds_exponent(d) + 10))

\* the double sum of two such doubles
double_add(a, b) == round_double(a.ms + b.ms, a.eps + b.eps)

\* .astype(int): truncation towards zero
astype_int(a) == IF a.eps < 0 THEN a.ms - 1 ELSE a.ms

\* line 739: group['starttime'].diff().fillna(0) in ms, times 1000 / 1000
diff_ms(group, i) ==
  IF i = 1 THEN [ms |-> 0, eps |-> 0]
  ELSE total_seconds_times_1000(group[i].starttime - group[i - 1].starttime)

\* line 742: group['diff_ms'].cumsum() up to entry i
RECURSIVE diff_ms_cumsum(_, _)
diff_ms_cumsum(group, i) ==
  IF i = 1 THEN diff_ms(group, 1)
  ELSE double_add(diff_ms_cumsum(group, i - 1), diff_ms(group, i))

\* lines 737-761: the row a group becomes
merged_row(group, meas_name) ==
  IF Len(group) > 1
    THEN LET x == [i \in DOMAIN group |->
                     [k \in DOMAIN group[i].x |->
                        group[i].x[k] + astype_int(diff_ms_cumsum(group, i))]]
             starttime == Min({group[i].starttime : i \in DOMAIN group})
             endtime == Max({group[i].endtime : i \in DOMAIN group})
         IN update_series(group[1], Some(Concat(x)),
                          Some(Concat([i \in DOMAIN group |-> group[i].y])),
                          Some(group[1].shift), Some(meas_name), Some(starttime),
                          Some(endtime), Some(endtime - starttime),
                          Some(Key(meas_name, group[1].shift)))
  ELSE update_series(group[1], None, None, None, None, None, None, None,
                     Some(Key(meas_name, group[1].shift)))

merge_meas(series_df) ==
  LET sorted == sorted_by_starttime(series_df)
      names == sorted_names({series_df[i].meas_name : i \in DOMAIN series_df})
  IN [g \in DOMAIN names |-> merged_row(group_of(sorted, names[g]), names[g])]

---------------------------------------------------------------------------
(* filter_series.  series_df.copy() copies the table, not the arrays its    *)
(* cells refer to, so rr is the caller's array; filter_rr_intervals_by_sd   *)
(* writes NaN into it (rr[mask] = np.nan) and returns it, while             *)
(* filter_rr_intervals_by_relative_mean works on a copy.  A call therefore  *)
(* yields the value returned and the caller's table as the call leaves it.  *)

FracAdd(f, g) == Frac(f[1] * g[2] + g[1] * f[2], f[2] * g[2])

\* np.cumsum(nn)
RECURSIVE FracCumSum(_)
FracCumSum(nn) ==
  IF nn = <<>> THEN <<>>
  ELSE LET p == FracCumSum(SubSeq(nn, 1, Len(nn) - 1))
       IN Append(p, IF p = <<>> THEN nn[1] ELSE FracAdd(p[Len(p)], nn[Len(nn)]))

\* a row filtered by relative mean first and by standard deviation second
filtered_row_relative_first(row) ==
  IF filter_rr_intervals_by_relative_mean(row.y, ThresholdFactorTenths).raised
    THEN filter_rr_intervals_by_relative_mean(row.y, ThresholdFactorTenths)
  ELSE IF interpolate_nan_values(
            filter_rr_intervals_by_sd(
              filter_rr_intervals_by_relative_mean(row.y, ThresholdFactorTenths).value,
              SdThreshold)).raised
    THEN Raise("ValueError")
  ELSE Return(update_series(row,
         Some(FracCumSum(interpolate_nan_values(
            filter_rr_intervals_by_sd(
              filter_rr_intervals_by_relative_mean(row.y, ThresholdFactorTenths).value,
              SdThreshold)).value)),
         Some(interpolate_nan_values(
            filter_rr_intervals_by_sd(
              filter_rr_intervals_by_relative_mean(row.y, ThresholdFactorTenths).value,
              SdThreshold)).value),
         None, None, None, None, None, None))

\* lines 1094-1117 for one row: the updated row, or the exception
filtered_row(row) ==
  LET filtered_sd == filter_rr_intervals_by_sd(row.y, SdThreshold)
      filtered_rr == filter_rr_intervals_by_relative_mean(filtered_sd, ThresholdFactorTenths)
  IN IF filtered_rr.raised THEN filtered_rr
     ELSE LET nn == interpolate_nan_values(filtered_rr.value)
          IN IF nn.raised THEN nn
             ELSE Return(update_series(row, Some(FracCumSum(nn.value)), Some(nn.value),
                                       None, None, None, None, None, None))

\* the caller's row once its y has gone through filter_rr_intervals_by_sd
row_after_filter(row) == [row EXCEPT !.y = filter_rr_intervals_by_sd(row.y, SdThreshold)]

filter_series(series_df) ==
  LET failing == {i \in DOMAIN series_df : filtered_row(series_df[i]).raised}
      reached == IF failing = {} THEN Len(series_df) ELSE Min(failing)
  IN [value |-> IF failing = {}
                  THEN Return([i \in DOMAIN series_df |-> filtered_row(series_df[i]).value])
                ELSE filtered_row(series_df[reached]),
      series_df |-> [i \in DOMAIN series_df |->
                       IF i <= reached THEN row_after_filter(series_df[i])
                       ELSE series_df[i]]]

---------------------------------------------------------------------------
(* SpecTransform: one Transform Op (trim, shift_series, merge_meas or       *)
(* filter_series) called on a table; inp becomes the caller's table as the  *)
(* call leaves it, args.before keeps the table as it was passed.            *)

\* a recording of intervals y
IntervalSeries(name, y, st) ==
  LET x == CumSum(y)
  IN [x |-> x, y |-> y, shift |-> 0, meas_name |-> name,
      starttime |-> st, endtime |-> st + x[Len(x)], duration |-> x[Len(x)],
      index |-> Key(name, 0)]

\* the recordings without NaN of up to maxLen intervals
Recordings(maxLen, maxSpecial) ==
  {y \in IntervalArrays(maxLen, maxSpecial) : \A i \in DOMAIN y : ~IsNaN(y[i])}

\* tables of one recording, alone or followed by a second recording of the
\* same name (started before it, or a second or a second and a millisecond
\* after it) or of another name
TransformTables(maxLen) ==
  LET second(name, st) ==
        IntervalSeries(name, [i \in 1..(MinValid + 1) |-> BaseInterval], st)
  IN UNION {{<<IntervalSeries(MeasNames[1], y, StartTimes[1])>>,
             <<IntervalSeries(MeasNames[1], y, StartTimes[1]),
               second(MeasNames[1], StartTimes[2])>>,
             <<IntervalSeries(MeasNames[1], y, StartTimes[1]),
               second(MeasNames[1], StartTimes[1] + MsPerSecond)>>,
             <<IntervalSeries(MeasNames[1], y, StartTimes[1]),
               second(MeasNames[1], StartTimes[1] + MsPerSecond + 1)>>,
             <<IntervalSeries(MeasNames[1], y, StartTimes[1]),
               second(MeasNames[2], StartTimes[2])>>} :
              y \in Recordings(maxLen, 1)}

\* trim windows over these recordings
WindowTimes == {None, Some(0), Some(2 * BaseInterval), Some(4 * BaseInterval)}

InitTransform == pc = "start" /\ inp \in TransformTables(MaxFilterLen)
                 /\ args = <<>> /\ ret = <<>>

TransformTrim ==
  /\ pc = "start"
  /\ \E start \in WindowTimes, end \in WindowTimes :
       /\ args' = [before |-> inp, start |-> start, end |-> end]
       /\ ret' = <<trim(inp, start, end)>>
  /\ pc' = "trim"
  /\ UNCHANGED inp

TransformShift ==
  /\ pc = "start"
  /\ \E shift_time_ms \in Offsets(MaxOffset) :
       /\ args' = [before |-> inp, shift_time_ms |-> shift_time_ms]
       /\ ret' = <<Return(shift_series(inp, shift_time_ms))>>
  /\ pc' = "shift"
  /\ UNCHANGED inp

TransformMerge ==
  /\ pc = "start"
  /\ args' = [before |-> inp]
  /\ ret' = <<Return(merge_meas(inp))>>
  /\ pc' = "merge"
  /\ UNCHANGED inp

TransformFilter ==
  /\ pc = "start"
  /\ args' = [before |-> inp]
  /\ ret' = <<filter_series(inp).value>>
  /\ inp' = filter_series(inp).series_df
  /\ pc' = "filter_series"

NextTransform == TransformTrim \/ TransformShift \/ TransformMerge \/ TransformFilter
SpecTransform == InitTransform /\ [][NextTransform]_vars

\* C12: no Transform Op mutates its input: after any call to trim, shift,
\* merge or filter_series, every Series of the input table has the same
\* time array, interval array (including which positions are NaN) and
\* metadata as before the call.
C12_InputNotMutated ==
  pc \in {"trim", "shift", "merge", "filter_series"} => inp = args.before

---------------------------------------------------------------------------
(* calc_corr.  pearsonr is a library call: the coefficient it returns is    *)
(* an argument of the model (corrs, one value per call, in call order);     *)
(* that it raises ValueError on fewer than 2 points is modelled.            *)

\* threshold_samples=0.7
SampleThreshold == [num |-> 7, den |-> 10]
\* ix_step=250 (lines 1200, 1269)
IxStep == 250

\* np.mean of coefficients: NaN as soon as one is NaN
FracMean(cs) ==
  IF \E i \in DOMAIN cs : cs[i] = FracNaN THEN FracNaN
  ELSE LET F[i \in 0..Len(cs)] == IF i = 0 THEN <<0, 1>> ELSE FracAdd(F[i - 1], cs[i])
       IN Frac(F[Len(cs)][1], F[Len(cs)][2] * Len(cs))

NoResult == [result |-> None, interp_pair_df |-> None]

\* lines 1213-1221: pearsonr raises ValueError on fewer than 2 points
interp_outcome(interp_pair_df) ==
  IF Len(interp_pair_df[1].y) < 2 THEN [kind |-> "raise", exc |-> "ValueError"]
  ELSE [kind |-> "corr", interp_pair_df |-> interp_pair_df]

\* lines 1192-1211 for a chunk pair trimmed to its common range
trimmed_chunk_outcome(split_pair_df) ==
  IF split_pair_df.raised THEN [kind |-> "raise", exc |-> split_pair_df.exc]
  ELSE IF ~Validates(split_pair_df.value, Some(2), Some(2), Some(SampleThreshold))
    THEN [kind |-> "skip"]
  ELSE interp_outcome(interp_pair_uniform_time(split_pair_df.value, IxStep))

\* lines 1186-1221 for the chunks idx_1 of serie 1 and idx_2 of serie 2:
\* "skip" when a validation fails, "raise" when pearsonr gets fewer than 2
\* points, else the interpolated pair
chunk_pair(split_1, split_2) ==
  trimmed_chunk_outcome(trim(<<split_1, split_2>>, None, None))

\* the chunk pairs in loop order, idx_2 running inside idx_1
chunk_pairs(splited_serie_1, splited_serie_2) ==
  [k \in 1..(Len(splited_serie_1) * Len(splited_serie_2)) |->
     chunk_pair(splited_serie_1[((k - 1) \div Len(splited_serie_2)) + 1],
                splited_serie_2[((k - 1) % Len(splited_serie_2)) + 1])]

\* lines 1161-1165: None when the pair trimmed to its common range fails
\* validation
valid_or_none(trimmed) ==
  IF trimmed.raised THEN None
  ELSE IF ~Validates(trimmed.value, None, None, None) THEN None
  ELSE Some(trimmed.value)

\* the pair as calc_corr has it at line 1167: None when a validation
\* failed (lines 1156-1165)
common_pair(pair_df) ==
  IF ~Validates(pair_df, Some(2), Some(2), Some(SampleThreshold)) THEN None
  ELSE valid_or_none(trim(pair_df, None, None))

\* the chunk pairs of the do_split branch
split_outcomes(pair_df) ==
  chunk_pairs(split_signal_on_gaps(<<pair_df[1]>>, DefaultKMaxGap).value,
              split_signal_on_gaps(<<pair_df[2]>>, DefaultKMaxGap).value)

used_outcomes(outcomes) == SelectSeq(outcomes, LAMBDA o : o.kind = "corr")

\* the number of pearsonr calls that return for the pair at line 1167
common_corr_calls(common, do_split) ==
  IF common = None THEN 0
  ELSE IF ~do_split THEN 1
  ELSE Len(used_outcomes(split_outcomes(common[1])))

\* the number of pearsonr calls that return in calc_corr(pair_df, do_split)
corr_calls(pair_df, do_split) == common_corr_calls(common_pair(pair_df), do_split)

\* lines 1223-1265: the chunks' interpolations joined in start time order
merged_chunks(serie, ordered) ==
  update_series(serie, Some(Concat([i \in DOMAIN ordered |-> ordered[i].x])),
                Some(Concat([i \in DOMAIN ordered |-> ordered[i].y])),
                None, None, Some(serie.starttime), Some(serie.endtime), None, None)
merged_interp(serie, interpolated_splits) ==
  merged_chunks(serie, sorted_by_starttime(interpolated_splits))

\* lines 1292-1301
pair_result(pair, corr_list) ==
  calc_corr_result(FracMean(corr_list), pair[1].meas_name, pair[2].meas_name,
                   pair[1].shift, pair[2].shift)

\* lines 1172-1265 after the chunk loop
split_result(pair, outcomes, used, corrs) ==
  IF \E k \in DOMAIN outcomes : outcomes[k].kind = "raise"
    THEN Raise(outcomes[Min({k \in DOMAIN outcomes : outcomes[k].kind = "raise"})].exc)
  ELSE IF used = <<>> THEN Return(NoResult)
  ELSE Return([result |-> Some(pair_result(pair, corrs)),
               interp_pair_df |->
                 Some(<<merged_interp(pair[1], [k \in DOMAIN used |-> used[k].interp_pair_df[1]]),
                        merged_interp(pair[2], [k \in DOMAIN used |-> used[k].interp_pair_df[2]])>>)])

\* lines 1267-1290
whole_result(pair, outcome, corrs) ==
  IF outcome.kind = "raise" THEN Raise(outcome.exc)
  ELSE Return([result |-> Some(pair_result(pair, corrs)),
               interp_pair_df |-> Some(outcome.interp_pair_df)])

\* lines 1167-1303 for the pair at line 1167
common_calc_corr(common, do_split, corrs) ==
  IF common = None THEN Return(NoResult)
  ELSE IF do_split
    THEN split_result(common[1], split_outcomes(common[1]),
                      used_outcomes(split_outcomes(common[1])), corrs)
  ELSE whole_result(common[1], interp_outcome(interp_pair_uniform_time(common[1], IxStep)),
                    corrs)

calc_corr(pair_df, do_split, corrs) ==
  common_calc_corr(common_pair(pair_df), do_split, corrs)

---------------------------------------------------------------------------
(* SpecCorr: one call of calc_corr on a table of one to three Series.       *)

\* the second as an interval
Beat == 1000

\* a Series with time axis x and intervals y whose start and end time are
\* those of its first and last sample (a trimmed Series)
SpannedSeries(name, x, y, st) ==
  [x |-> x, y |-> y, shift |-> 0, meas_name |-> name,
   starttime |-> st + x[1], endtime |-> st + x[Len(x)],
   duration |-> x[Len(x)] - x[1], index |-> Key(name, 0)]

\* the Series of the position i of a table, by shape:
\*  "even"   five beats from the recording's start
\*  "offset" the same, begun half a beat later
\*  "late"   five beats after a pause of twenty
\*  "head"   four quick beats, then a long interval
\*  "tail"   a long interval, then four quick beats after the head's
\*  "lead"   the head after one early sample
\*  "trail"  the tail before one late sample
\*  "merged" two runs of three beats joined over a pause the intervals
\*           do not hold: too few samples for its duration
\*  "gapped" two runs of five beats over such a pause, trimmed
ShapedSeries(shape, i) ==
  LET name == MeasNames[i]
      st == StartTimes[i]
      beats(n) == [k \in 1..n |-> Beat]
  IN CASE shape = "even" -> IntervalSeries(name, beats(5), st)
       [] shape = "offset" -> IntervalSeries(name, <<Beat + 500>> \o beats(4), st)
       [] shape = "late" -> IntervalSeries(name, <<20 * Beat>> \o beats(4), st)
       [] shape = "head" -> IntervalSeries(name, <<Beat, 100, 100, 100, 8700>>, st)
       [] shape = "tail" -> IntervalSeries(name, <<100, 4900, 100, 100, 100>>, st)
       [] shape = "lead" -> IntervalSeries(name, <<50, 950, 100, 100, 100, 8700>>, st)
       [] shape = "trail" ->
            IntervalSeries(name, <<100, 4900, 100, 100, 100, 14700>>, st)
       [] shape = "merged" ->
            [IntervalSeries(name, beats(6), st)
               EXCEPT !.x = <<1000, 2000, 3000, 31000, 32000, 33000>>,
                      !.endtime = st + 33000, !.duration = 33000]
       [] shape = "gapped" ->
            SpannedSeries(name, <<1000, 2000, 3000, 4000, 5000,
                                  11000, 12000, 13000, 14000, 15000>>, beats(10), st)

Shapes == {"even", "offset", "late", "head", "tail", "lead", "trail", "merged",
           "gapped"}

MaxCorrRows == 3

ShapedTables(maxRows) ==
  UNION {{[i \in 1..n |-> ShapedSeries(shape[i], i)] : shape \in [1..n -> Shapes]} :
           n \in 1..maxRows}

InitCorr == pc = "start" /\ inp \in ShapedTables(MaxCorrRows)
            /\ args = <<>> /\ ret = <<>>

CorrCall ==
  /\ pc = "start"
  /\ \E do_split \in BOOLEAN :
       \E corrs \in [1..corr_calls(inp, do_split) -> CorrValues] :
         /\ args' = [do_split |-> do_split, corrs |-> corrs]
         /\ ret' = <<calc_corr(inp, do_split, corrs)>>
  /\ pc' = "calc_corr"
  /\ UNCHANGED inp

NextCorr == CorrCall
SpecCorr == InitCorr /\ [][NextCorr]_vars

\* the pair trimmed to its common overlap fails validation
OverlapInvalid ==
  \/ trim(inp, None, None).raised
  \/ ~Validates(trim(inp, None, None).value, None, None, None)

\* the inputs for which the marker is due
MarkerDue ==
  \/ Len(inp) # 2
  \/ ~Validates(inp, None, None, Some(SampleThreshold))
  \/ OverlapInvalid

\* C15: correlate returns the marker (None, None) without raising whenever
\* its input does not hold exactly 2 Series, or some entry fails the 0.7
\* sample-ratio check, or the pair trimmed to its common overlap fails
\* validation; otherwise, with split=False, it returns a result and a
\* resampled pair that are both non-None.
C15_MarkerOrResult ==
  pc = "calc_corr"
  => /\ MarkerDue => (~ret[1].raised /\ ret[1].value = NoResult)
     /\ (~MarkerDue /\ ~args.do_split)
          => /\ ~ret[1].raised
             /\ ret[1].value.result # None
             /\ ret[1].value.interp_pair_df # None

---------------------------------------------------------------------------
(* process_rr_data: the loop over the pairs (lines 1584-1679) and the       *)
(* final table (1682-1689).                                                 *)

\* time_ms_threshold=1000 (line 1589)
AlignThreshold == 1000

\* range(1000, 5001, 1000) (line 1634)
ShiftStepMs == 1000

\* density_plot(trimmed_pair_df, ...): "for meas in meas_list" over a
\* DataFrame yields its column labels, and meas.data of a label, a str,
\* raises AttributeError (line 194); a table without columns draws nothing
density_plot(meas_list) ==
  IF \E i \in DOMAIN meas_list : DOMAIN meas_list[i] # {} THEN Raise("AttributeError")
  ELSE Return("fig")

\* series_df.loc[series_df['meas_name'].isin(pair)].iloc[[0, 1]]
select_pair(series_df, pair) ==
  LET rows == SelectSeq(series_df, LAMBDA row : row.meas_name \in {pair[1], pair[2]})
  IN <<rows[1], rows[2]>>

\* lines 1586-1592: the aligned pair and the pair trimmed to the window
aligned_pair(series_df, pair) ==
  time_align_pair(select_pair(series_df, pair), AlignThreshold).value
trimmed_pair(series_df, pair, start_time_ms, end_time_ms) ==
  trim(aligned_pair(series_df, pair), Some(start_time_ms), Some(end_time_ms)).value

TrimValid(trimmed_pair_df) == Validates(trimmed_pair_df, None, None, Some(SampleThreshold))

\* a row that carries a coefficient next to the names
invalid_corr_result_with_corr(trimmed_pair_df) ==
  [serie_1_meas_name |-> trimmed_pair_df[1].meas_name,
   serie_2_meas_name |-> trimmed_pair_df[2].meas_name, corr |-> FracNaN]

\* lines 1598-1601
invalid_corr_result(trimmed_pair_df) ==
  [serie_1_meas_name |-> trimmed_pair_df[1].meas_name,
   serie_2_meas_name |-> trimmed_pair_df[2].meas_name]

\* lines 1636-1639: the pair shifted and trimmed to the window
shifted_pair(pair_df, shift_ms, start_time_ms, end_time_ms) ==
  trim(shift_series(pair_df, shift_ms), Some(start_time_ms), Some(end_time_ms)).value

\* the two calc_corr inputs of a shift step, None where the shifted Series
\* fails validation (lines 1642, 1654)
variant_1(trimmed_pair_df, shifted) ==
  IF Validates(<<shifted[1]>>, None, None, Some(SampleThreshold))
    THEN Some(<<shifted[1], trimmed_pair_df[2]>>) ELSE None
variant_2(trimmed_pair_df, shifted) ==
  IF Validates(<<shifted[2]>>, None, None, Some(SampleThreshold))
    THEN Some(<<trimmed_pair_df[1], shifted[2]>>) ELSE None

\* a variant's calc_corr call returns a result
variant_yields(variant, do_split) ==
  variant # None /\ corr_calls(variant[1], do_split) > 0

\* the shift value ms adds a candidate to calc_corr_results
step_yields(pair_df, trimmed_pair_df, shift_ms, start_time_ms, end_time_ms) ==
  \/ variant_yields(variant_1(trimmed_pair_df,
                              shifted_pair(pair_df, shift_ms, start_time_ms, end_time_ms)),
                    FALSE)
  \/ variant_yields(variant_2(trimmed_pair_df,
                              shifted_pair(pair_df, shift_ms, start_time_ms, end_time_ms)),
                    TRUE)

\* the orders in which a set can be iterated
Orders(S) == {q \in [1..Cardinality(S) -> S] : Range(q) = S}

\* lines 1682-1686: the rows collected, each with the group label
final_table(best_corr_results, group_label) ==
  [i \in DOMAIN best_corr_results |->
     [group_label |-> group_label] @@ best_corr_results[i]]

---------------------------------------------------------------------------
(* SpecBatch: process_rr_data on a table of recordings.  args holds the     *)
(* loop's variables: matching_pairs in the order iterated and the position  *)
(* pair_no; ret[1] is best_corr_results; ret[2] is the value returned or    *)
(* the exception.  A pair that passes the trim validation goes to           *)
(* density_plot at line 1611, which raises, so the lines 1621-1679 of the   *)
(* loop are never reached.                                                  *)

MaxBatchRows == 4

BatchShapes == {"even", "offset", "late"}

\* the position of the other recording of a pair: 1 and 2, 3 and 4 swapped
Partner(i) == IF i % 2 = 1 THEN i + 1 ELSE i - 1

\* tables of recordings stored pair by pair, the "m" recording of each pair
\* before or after its "k" recording
BatchTables(maxRows) ==
  UNION {{[i \in 1..n |-> ShapedSeries(shape[i], i)] : shape \in [1..n -> BatchShapes]}
         \cup {[i \in 1..n |-> ShapedSeries(shape[i], Partner(i))] :
                  shape \in [1..n -> BatchShapes]} :
           n \in 1..Min({maxRows, Len(MeasNames)})}

\* the windows asked for: the first four and a half seconds, the first minute
BatchWindows == {<<0, 4500>>, <<0, 60000>>}

InitBatch ==
  /\ pc = "start"
  /\ \E series_df \in BatchTables(MaxBatchRows), window \in BatchWindows :
       inp = [series_df |-> series_df, group_label |-> "g",
              start_time_ms |-> window[1], end_time_ms |-> window[2]]
  /\ args = [matching_pairs |-> <<>>, pair_no |-> 0]
  /\ ret = << <<>> >>

BatchRaise(e) ==
  /\ pc' = "raised"
  /\ ret' = <<ret[1], Raise(e)>>
  /\ UNCHANGED args

\* lines 1575-1581
Discover ==
  /\ pc = "start"
  /\ IF ~Validates(inp.series_df, Some(2), None, None) THEN BatchRaise("ValueError")
     ELSE IF find_pairs(inp.series_df, "m", "k", FALSE).raised
       THEN BatchRaise(find_pairs(inp.series_df, "m", "k", FALSE).exc)
     ELSE /\ \E order \in Orders(find_pairs(inp.series_df, "m", "k", FALSE).value.matching_pairs) :
               args' = [args EXCEPT !.matching_pairs = order, !.pair_no = 1]
          /\ pc' = "pairs"
          /\ UNCHANGED ret
  /\ UNCHANGED inp

\* the pair at position k of the iteration, aligned, and trimmed to the window
AlignedAt(k) == aligned_pair(inp.series_df, args.matching_pairs[k])
TrimmedAt(k) ==
  trimmed_pair(inp.series_df, args.matching_pairs[k], inp.start_time_ms, inp.end_time_ms)

\* lines 1584-1611: a pair up to the first plot
PairOn(trimmed_pair_df) ==
  IF ~TrimValid(trimmed_pair_df)
    THEN /\ ret' = <<Append(ret[1], invalid_corr_result(trimmed_pair_df))>>
         /\ args' = [args EXCEPT !.pair_no = @ + 1]
         /\ pc' = "pairs"
  ELSE BatchRaise(density_plot(trimmed_pair_df).exc)

PairStart ==
  /\ pc = "pairs"
  /\ args.pair_no <= Len(args.matching_pairs)
  /\ PairOn(TrimmedAt(args.pair_no))
  /\ UNCHANGED inp

\* lines 1682-1689
Finish ==
  /\ pc = "pairs"
  /\ args.pair_no > Len(args.matching_pairs)
  /\ ret' = <<ret[1], Return(final_table(ret[1], inp.group_label))>>
  /\ pc' = "done"
  /\ UNCHANGED <<inp, args>>

NextBatch == Discover \/ PairStart \/ Finish
SpecBatch == InitBatch /\ [][NextBatch]_vars

\* a row that holds the two names of the pair and nothing else
NamesOnly(row, pair) ==
  /\ DOMAIN row = {"serie_1_meas_name", "serie_2_meas_name"}
  /\ {row.serie_1_meas_name, row.serie_2_meas_name} = {pair[1], pair[2]}

\* the rows of the table returned that name the pair
RowsOf(pair) ==
  {i \in DOMAIN ret[2].value :
     {ret[2].value[i].serie_1_meas_name, ret[2].value[i].serie_2_meas_name}
       = {pair[1], pair[2]}}

\* C13: a pair whose trimmed Series fail validation raises no exception: it
\* adds exactly one row that holds the two names and no correlation or
\* shift value, the loop goes on to the pairs that remain, and the table
\* returned holds exactly one row for it, with the names and the group
\* label only.
C13_InvalidTrimRow ==
  /\ \A k \in DOMAIN args.matching_pairs :
       ~TrimValid(TrimmedAt(k))
       => /\ pc = "raised" => args.pair_no # k
          /\ k < args.pair_no
               => /\ k <= Len(ret[1])
                  /\ NamesOnly(ret[1][k], args.matching_pairs[k])
          /\ pc = "done"
               => /\ Cardinality(RowsOf(args.matching_pairs[k])) = 1
                  /\ \A i \in RowsOf(args.matching_pairs[k]) :
                       /\ DOMAIN ret[2].value[i]
                            = {"serie_1_meas_name", "serie_2_meas_name", "group_label"}
                       /\ ret[2].value[i].group_label = inp.group_label
  /\ pc = "pairs" => Len(ret[1]) = args.pair_no - 1
  /\ pc = "done" => Len(ret[2].value) = Len(args.matching_pairs)

\* a first pair that fails the trim validation, the loop gone on to the
\* second, and the table returned with a row for each
C13_Witness ==
  /\ pc = "done"
  /\ Len(args.matching_pairs) = 2
  /\ ~TrimValid(TrimmedAt(1))
  /\ NamesOnly(ret[1][1], args.matching_pairs[1])
  /\ Len(ret[2].value) = 2
  /\ RowsOf(args.matching_pairs[1]) # RowsOf(args.matching_pairs[2])

\* the base correlation and every shifted variant of the pair at position
\* k return None
ZeroCandidates(k) ==
  /\ corr_calls(TrimmedAt(k), FALSE) = 0
  /\ \A step \in 1..MaxShiftSteps :
       ~step_yields(AlignedAt(k), TrimmedAt(k), step * ShiftStepMs,
                    inp.start_time_ms, inp.end_time_ms)

\* C14: a pair that passes the trim validation and yields zero correlation
\* candidates (the base correlation and every shifted variant return the
\* marker) raises nothing and still appears in the output as a row that
\* holds only the two names.
C14_ZeroCandidatesRow ==
  \A k \in DOMAIN args.matching_pairs :
    (k <= args.pair_no /\ TrimValid(TrimmedAt(k)) /\ ZeroCandidates(k))
    => /\ ~(pc = "raised" /\ args.pair_no = k)
       /\ k < args.pair_no
            => /\ k <= Len(ret[1])
               /\ NamesOnly(ret[1][k], args.matching_pairs[k])

---------------------------------------------------------------------------
(* trim on a window that keeps no sample of some Series, under SpecTrim:    *)
(* the first call on a table of recordings, the second on its result.       *)

\* the window of trim(series_df, start, end) on Series that hold samples
WindowStart(series_df, start) ==
  IF start = None THEN Max({series_df[i].x[1] : i \in DOMAIN series_df}) ELSE start[1]
WindowEnd(series_df, end) ==
  IF end = None THEN Min({series_df[i].x[Len(series_df[i].x)] : i \in DOMAIN series_df})
  ELSE end[1]

\* no sample of the Series lies in the window
KeepsNone(serie, new_start, new_end) ==
  \A j \in DOMAIN serie.x : serie.x[j] < new_start \/ serie.x[j] > new_end

\* the Series as the claim has it after a trim that kept none of its samples
EmptiedTo(out, serie, new_start, new_end) ==
  /\ out.x = <<>> /\ out.y = <<>>
  /\ out.starttime = serie.starttime + new_start
  /\ out.endtime = serie.starttime + new_end

\* C16: trim never raises on a degenerate window: for every table and
\* every window (explicit or defaulted) that retains zero samples of some
\* Series, including a table with a Series already emptied by an earlier
\* trim, trim returns a table in which that Series has empty time and
\* interval arrays, start_time = original start_time + start and
\* end_time = original start_time + end.
C16_DegenerateWindow ==
  /\ pc \in {"trim", "trim_trim"}
       => \A i \in DOMAIN inp :
            KeepsNone(inp[i], WindowStart(inp, args.start), WindowEnd(inp, args.end))
            => /\ ~ret[1].raised
               /\ EmptiedTo(ret[1].value[i], inp[i],
                            WindowStart(inp, args.start), WindowEnd(inp, args.end))
  /\ (pc = "trim_trim" /\ \E i \in DOMAIN ret[1].value : ret[1].value[i].x = <<>>)
       => /\ ~ret[2].raised
          /\ \A i \in DOMAIN ret[1].value :
               (ret[1].value[i].x = <<>> /\ args.start # None /\ args.end # None)
               => EmptiedTo(ret[2].value[i], ret[1].value[i], args.start[1], args.end[1])

---------------------------------------------------------------------------
(* SpecShiftSeconds: shift(s, m1), then shift of its result by m2, then     *)
(* shift(s, m1 + m2), for offsets of whole and half seconds on a table of   *)
(* recordings.                                                              *)

MaxHalfSeconds == 3

\* offsets of up to maxHalfSeconds half seconds, either way
HalfSecondOffsets(maxHalfSeconds) ==
  {k * (MsPerSecond \div 2) : k \in (-maxHalfSeconds)..maxHalfSeconds}

InitShiftSeconds == pc = "start" /\ inp \in BatchTables(2) /\ args = <<>> /\ ret = <<>>

ShiftFirstSeconds ==
  /\ pc = "start"
  /\ \E m1 \in HalfSecondOffsets(MaxHalfSeconds), m2 \in HalfSecondOffsets(MaxHalfSeconds) :
       /\ args' = [m1 |-> m1, m2 |-> m2]
       /\ ret' = <<shift_series(inp, m1)>>
  /\ pc' = "shift_1"
  /\ UNCHANGED inp

NextShiftSeconds == ShiftFirstSeconds \/ ShiftSecond \/ ShiftSum
SpecShiftSeconds == InitShiftSeconds /\ [][NextShiftSeconds]_vars

\* round(m / 1000): to the nearest whole second, a half to the even one
RoundSeconds(ms) ==
  IF ms >= 0 THEN RoundHalfEven(ms, MsPerSecond) ELSE -RoundHalfEven(-ms, MsPerSecond)

\* C17: the shift field is an accumulated offset: after shift(s, m) it
\* equals the previous shift field plus round(m / 1000), so
\* shift(shift(s, m1), m2) carries the same shift field and the same key
\* name_<shift seconds> as shift(s, m1 + m2).
C17_ShiftAccumulates ==
  pc = "shift_sum"
  => \A r \in DOMAIN inp :
       /\ ret[1][r].shift = inp[r].shift + RoundSeconds(args.m1)
       /\ ret[2][r].shift = ret[1][r].shift + RoundSeconds(args.m2)
       /\ ret[2][r].shift = ret[3][r].shift
       /\ ret[2][r].index = ret[3][r].index

---------------------------------------------------------------------------
(* The sample-ratio check of validate_series_df, under SpecValidate.        *)

\* every structural check passes on the value
StructurallyValid(df, min_size, max_size) ==
  df.kind = "DataFrame" /\ structural_errors(df, min_size, max_size) = <<>>

\* some entry has a mean interval that is NaN or not positive, or fewer
\* samples than t * (endtime - starttime in ms) / mean(interval)
RatioFails(df, t) ==
  \E i \in DOMAIN df.rows : BadMean(df, i) \/ UnderSampled(df, i, t)

\* C18: when a sample-ratio threshold t is given and all structural checks
\* pass, validate returns false iff for some entry the mean of the non-NaN
\* intervals is NaN or <= 0, or len(time) < t * (end_time - start_time in
\* ms) / mean(interval); when t is not given the sample ratio never affects
\* the result.
C18_SampleRatioCheck ==
  (pc = "validate" /\ StructurallyValid(inp, args.min_size, args.max_size))
  => /\ ~ret[1].raised
     /\ args.threshold_samples # None
          => (ret[1].value.ok = FALSE <=> RatioFails(inp, args.threshold_samples[1]))
     /\ args.threshold_samples = None => ret[1].value.ok = TRUE

\* a structurally valid table with an under-sampled entry and an entry of
\* non-positive mean interval, refused with the threshold given
C18_Witness ==
  /\ pc = "validate" /\ StructurallyValid(inp, args.min_size, args.max_size)
  /\ args.threshold_samples # None
  /\ \E i \in DOMAIN inp.rows : UnderSampled(inp, i, args.threshold_samples[1])
  /\ \E i \in DOMAIN inp.rows : BadMean(inp, i)
  /\ ret[1].value.ok = FALSE

---------------------------------------------------------------------------
(* SpecPairsRoles: one call of find_pairs that asks for names, with the     *)
(* two role letters chosen by the caller.                                   *)

RoleLetters == {"m", "k"}

FindPairsRolesCall ==
  /\ pc = "start"
  /\ \E serie_1_letter_suffix \in RoleLetters, serie_2_letter_suffix \in RoleLetters :
       /\ args' = [serie_1_letter_suffix |-> serie_1_letter_suffix,
                   serie_2_letter_suffix |-> serie_2_letter_suffix]
       /\ ret' = <<find_pairs(inp, serie_1_letter_suffix, serie_2_letter_suffix, FALSE)>>
  /\ pc' = "find_pairs"
  /\ UNCHANGED inp

NextPairsRoles == FindPairsRolesCall
SpecPairsRoles == InitPairs /\ [][NextPairsRoles]_vars

\* the names x and y end in numbers, and the numbers are equal
SameTrailingNumber(x, y) ==
  /\ DigitSuffix(x) # <<>> /\ DigitSuffix(y) # <<>>
  /\ ToInt(DigitSuffix(x)) = ToInt(DigitSuffix(y))

\* the pairs of names of two distinct entries that share the first two
\* characters, carry the role letters in third place and end in the same
\* number
PairsOfDistinctEntries(series_df, role_a, role_b) ==
  {<<series_df[i].meas_name, series_df[j].meas_name>> :
     <<i, j>> \in {ij \in (DOMAIN series_df) \X (DOMAIN series_df) :
                    /\ ij[1] # ij[2]
                    /\ Len(series_df[ij[1]].meas_name) >= 3
                    /\ Len(series_df[ij[2]].meas_name) >= 3
                    /\ SubSeq(series_df[ij[1]].meas_name, 1, 2)
                         = SubSeq(series_df[ij[2]].meas_name, 1, 2)
                    /\ series_df[ij[1]].meas_name[3] = role_a
                    /\ series_df[ij[2]].meas_name[3] = role_b
                    /\ SameTrailingNumber(series_df[ij[1]].meas_name,
                                          series_df[ij[2]].meas_name)}}

\* C19: find_pairs returns (x, y) iff x and y are names of two distinct
\* entries that share the same first 2 characters, x's third character is
\* the role-A suffix, y's third character is the role-B suffix, and their
\* trailing numeric suffixes are equal; each unordered pair is returned
\* once (never both (A, B) and (B, A), never an entry paired with itself),
\* and the unmatched list is exactly the set of names that occur in no
\* returned pair.
C19_PairsCharacterised ==
  pc = "find_pairs"
  => /\ ~ret[1].raised
     /\ ret[1].value.matching_pairs
          = PairsOfDistinctEntries(inp, args.serie_1_letter_suffix, args.serie_2_letter_suffix)
     /\ \A pair \in ret[1].value.matching_pairs :
          /\ pair[1] # pair[2]
          /\ <<pair[2], pair[1]>> \notin ret[1].value.matching_pairs
     /\ ret[1].value.unmatched_meas
          = {inp[i].meas_name : i \in DOMAIN inp}
              \ UNION {{pair[1], pair[2]} : pair \in ret[1].value.matching_pairs}

---------------------------------------------------------------------------
(* The samples trim keeps, under SpecTrim.                                  *)

\* the positions of the samples of the Series inside [new_start, new_end]
Inside(serie, new_start, new_end) ==
  {j \in DOMAIN serie.x : new_start <= serie.x[j] /\ serie.x[j] <= new_end}

\* the k-th position, in order, of a set of positions
NthOf(positions, k) ==
  CHOOSE j \in positions : Cardinality({l \in positions : l <= j}) = k

\* out holds the samples of the Series at the positions given, in order,
\* time and interval alike
HoldsExactly(out, serie, positions) ==
  /\ Len(out.x) = Cardinality(positions) /\ Len(out.y) = Cardinality(positions)
  /\ \A k \in 1..Cardinality(positions) :
       /\ out.x[k] = serie.x[NthOf(positions, k)]
       /\ out.y[k] = serie.y[NthOf(positions, k)]

\* C20: trim retains exactly the samples inside the window: for every
\* Series of the table the output time array is the subsequence of the
\* input time values t with start <= t <= end (both bounds inclusive), the
\* interval array keeps the values at the same positions, and start and
\* end, when omitted, default to the maximum over the Series of the first
\* time value and the minimum over the Series of the last time value.
C20_TrimKeepsWindow ==
  pc = "trim"
  => /\ ~ret[1].raised
     /\ Len(ret[1].value) = Len(inp)
     /\ \A i \in DOMAIN inp :
          HoldsExactly(ret[1].value[i], inp[i],
                       Inside(inp[i], WindowStart(inp, args.start), WindowEnd(inp, args.end)))

\* a trim of two Series with the start defaulted and the end given that
\* keeps a sample on each bound and drops the first one
C20_Witness ==
  /\ pc = "trim" /\ Len(inp) = 2
  /\ args.start = None /\ args.end # None
  /\ \E i \in DOMAIN inp :
       /\ Len(ret[1].value[i].x) >= 2
       /\ Len(ret[1].value[i].x) < Len(inp[i].x)
       /\ ret[1].value[i].x[1] = WindowStart(inp, args.start)
       /\ ret[1].value[i].x[Len(ret[1].value[i].x)] = args.end[1]
       /\ ret[1].value[i].x[1] # inp[i].x[1]

---------------------------------------------------------------------------
(* The order of the filters in filter_series, under SpecTransform.          *)

\* the intervals after the local filter, then the global one, then the
\* interpolation
RelativeThenSd(y) ==
  interpolate_nan_values(
    filter_rr_intervals_by_sd(
      filter_rr_intervals_by_relative_mean(y, ThresholdFactorTenths).value, SdThreshold)).value

\* the intervals after the global filter, then the local one, then the
\* interpolation
SdThenRelative(y) ==
  interpolate_nan_values(
    filter_rr_intervals_by_relative_mean(
      filter_rr_intervals_by_sd(y, SdThreshold), ThresholdFactorTenths).value).value

\* filter_series has returned a table
Filtered == pc = "filter_series" /\ ~ret[1].raised

\* C21: filter_series computes, for every Series, interval' =
\* interpolate_nan(filter_outliers(filter_outliers_relative(interval))):
\* the local relative-deviation filter (threshold 0.2) first, the global
\* 3-SD filter on its output, then the interpolation of the NaNs, and time
\* recomputed as the cumulative sum of interval'.
C21_RelativeFirst ==
  Filtered
  => \A i \in DOMAIN ret[1].value :
       /\ ret[1].value[i].y = RelativeThenSd(args.before[i].y)
       /\ ret[1].value[i].x = FracCumSum(ret[1].value[i].y)

\* C21 (amended): the global 3-SD filter is applied first, the local
\* relative-deviation filter (threshold 0.2) to its output, the NaNs are
\* then interpolated, and time is recomputed as the cumulative sum of
\* interval'.
C21_SdFirst ==
  Filtered
  => \A i \in DOMAIN ret[1].value :
       /\ ret[1].value[i].y = SdThenRelative(args.before[i].y)
       /\ ret[1].value[i].x = FracCumSum(ret[1].value[i].y)
       /\ Len(ret[1].value[i].y) = Len(args.before[i].y)
       /\ \A k \in DOMAIN ret[1].value[i].y : ret[1].value[i].y[k] # FracNaN

\* a recording on which the two orders differ, filtered
C21_Witness ==
  /\ Filtered
  /\ \E k \in DOMAIN args.before[1].y : sd_outlier(args.before[1].y, k, SdThreshold)
  /\ SdThenRelative(args.before[1].y) # RelativeThenSd(args.before[1].y)
  /\ ret[1].value[1].y = SdThenRelative(args.before[1].y)

---------------------------------------------------------------------------
(* What merge_meas returns, under SpecTransform.                            *)

\* the entries of one name in start time order
EntriesOf(table, name) == group_of(sorted_by_starttime(table), name)

\* the time values of entry i of a group, offset by its start distance from
\* the first entry
OffsetTime(group, i) ==
  [k \in DOMAIN group[i].x |->
     group[i].x[k] + (group[i].starttime - group[1].starttime)]

\* row is the merge of the group as the claim describes it
MergedAsDescribed(row, group) ==
  IF Len(group) > 1
    THEN /\ row.starttime = Min({group[i].starttime : i \in DOMAIN group})
         /\ row.endtime = Max({group[i].endtime : i \in DOMAIN group})
         /\ row.duration = row.endtime - row.starttime
         /\ row.x = Concat([i \in DOMAIN group |-> OffsetTime(group, i)])
         /\ row.y = Concat([i \in DOMAIN group |-> group[i].y])
  ELSE /\ row.x = group[1].x /\ row.y = group[1].y
       /\ row.starttime = group[1].starttime /\ row.endtime = group[1].endtime
       /\ row.duration = group[1].duration

\* C22: merge returns exactly one Series per distinct name of the input,
\* with pairwise distinct keys name_<shift>; a group of more than one entry
\* becomes a Series with start_time the minimum start, end_time the maximum
\* end, duration their difference, and time / interval the concatenation in
\* start order of the entries' arrays, each entry's time offset by its
\* start distance from the first entry; a single entry keeps its arrays and
\* timing.
C22_MergeAsDescribed ==
  pc = "merge"
  => LET out == ret[1].value
         names == {args.before[i].meas_name : i \in DOMAIN args.before}
     IN /\ Len(out) = Cardinality(names)
        /\ {out[g].meas_name : g \in DOMAIN out} = names
        /\ \A g, h \in DOMAIN out : g # h => out[g].index # out[h].index
        /\ \A g \in DOMAIN out :
             /\ out[g].index = Key(out[g].meas_name, out[g].shift)
             /\ MergedAsDescribed(out[g], EntriesOf(args.before, out[g].meas_name))

---------------------------------------------------------------------------
(* calc_corr with do_split=True, under SpecCorr.  The value a pearsonr      *)
(* call returns is represented by its coefficient; p_val_list is appended   *)
(* to and averaged in the same statements as corr_list.                     *)

\* the chunk pair passes validation after trimming to its own overlap
PassesTrimValidation(split_1, split_2) ==
  /\ ~trim(<<split_1, split_2>>, None, None).raised
  /\ Validates(trim(<<split_1, split_2>>, None, None).value,
               Some(2), Some(2), Some(SampleThreshold))

\* the chunk pairs of the pair that pass it
PassingChunkPairs(pair) ==
  LET splited_serie_1 == split_signal_on_gaps(<<pair[1]>>, DefaultKMaxGap).value
      splited_serie_2 == split_signal_on_gaps(<<pair[2]>>, DefaultKMaxGap).value
  IN {ij \in (DOMAIN splited_serie_1) \X (DOMAIN splited_serie_2) :
        PassesTrimValidation(splited_serie_1[ij[1]], splited_serie_2[ij[2]])}

\* calc_corr was called with do_split=True and reached the chunk loop
SplitCorrCall == pc = "calc_corr" /\ args.do_split /\ common_pair(inp) # None

\* C23: correlate with split=True: every chunk pair that passes validation
\* after trimming to its own overlap contributes exactly one correlation
\* value, the reported corr is the unweighted mean over exactly those chunk
\* pairs, chunk pairs failing validation contribute nothing, and if no
\* chunk pair contributes the call returns (None, None).
C23_MeanOverPassingPairs ==
  SplitCorrCall
  => /\ ~ret[1].raised
     /\ Len(args.corrs) = Cardinality(PassingChunkPairs(common_pair(inp)[1]))
     /\ IF PassingChunkPairs(common_pair(inp)[1]) = {}
          THEN ret[1].value = NoResult
        ELSE /\ ret[1].value.result # None
             /\ ret[1].value.result[1].corr = FracMean(args.corrs)

---------------------------------------------------------------------------
(* The search of a pair that passes the trim validation, under SpecBatch.   *)

\* the row the selection of lines 1666-1679 appends: a candidate, which
\* carries a coefficient and a shift difference
SelectedRow(row) == {"corr", "shift_diff"} \subseteq DOMAIN row

\* C24: for every pair that passes the trim validation, the best-of
\* selection happens exactly once, after the base evaluation and all shift
\* variants have been evaluated or skipped: the search of the pair is not
\* ended early, and when the loop moves on the pair has added exactly one
\* selected row.
C24_SelectionOnce ==
  \A k \in DOMAIN args.matching_pairs :
    (k <= args.pair_no /\ TrimValid(TrimmedAt(k)))
    => /\ pc = "raised" => args.pair_no # k
       /\ k < args.pair_no
            => /\ k <= Len(ret[1])
               /\ SelectedRow(ret[1][k])
       /\ pc = "pairs" => Len(ret[1]) = args.pair_no - 1

---------------------------------------------------------------------------
(* Which side time_align_pair moves, under SpecAlign.                       *)

\* the start time difference of the pair passed, first minus second
StartDiff == inp[1].starttime - inp[2].starttime

\* the time values x, each increased by ms
Later(x, ms) == [i \in DOMAIN x |-> x[i] + ms]

\* time_align_pair has returned a pair
Aligned == pc = "time_align" /\ ~ret[1].raised

C25_WitnessFirst ==
  /\ Aligned
  /\ StartDiff < -args.time_ms_threshold
  /\ ret[1].value[1].x # inp[1].x
  /\ ret[1].value[2].x = inp[2].x

---------------------------------------------------------------------------
(* The order of the two Series in the rows of a pair, under SpecBatch.      *)

\* the shift field of the Series of that name in the pair
ShiftOf(pair_df, meas_name) ==
  pair_df[CHOOSE i \in DOMAIN pair_df : pair_df[i].meas_name = meas_name].shift

\* the row calc_corr returns for the pair at position k (lines 1292-1301)
ResultAt(k) == pair_result(TrimmedAt(k), <<Frac(1, 2)>>)

\* C26: for every pair (A, B) returned by find_pairs, A with the role-A
\* suffix and B with the role-B suffix, every result row made for it names
\* A as the first series and B as the second and has shift_diff = shift_A
\* - shift_B, whatever the order in which A and B are stored in the table.
C26_NamesInRoleOrder ==
  pc \in {"pairs", "raised", "done"}
  => \A k \in DOMAIN args.matching_pairs :
       /\ ResultAt(k).serie_1_meas_name = args.matching_pairs[k][1]
       /\ ResultAt(k).serie_2_meas_name = args.matching_pairs[k][2]
       /\ ResultAt(k).shift_diff
            = ShiftOf(TrimmedAt(k), args.matching_pairs[k][1])
              - ShiftOf(TrimmedAt(k), args.matching_pairs[k][2])
       /\ (k < args.pair_no /\ k <= Len(ret[1]))
            => /\ ret[1][k].serie_1_meas_name = args.matching_pairs[k][1]
               /\ ret[1][k].serie_2_meas_name = args.matching_pairs[k][2]

---------------------------------------------------------------------------
(* The timing fields trim and split_signal_on_gaps recompute, under         *)
(* SpecSplit.  The duration is kept in ms, as the difference it is          *)
(* computed from.                                                           *)

\* the timing fields of the row agree with its time values
TimingConsistent(row) ==
  /\ row.endtime - row.starttime = row.x[Len(row.x)] - row.x[1]
  /\ row.starttime <= row.endtime
  /\ row.duration = row.endtime - row.starttime

\* split_signal_on_gaps made chunks of the table: some run of it passes the
\* single-row validation
MadeChunks(serie_df, k_max_gap) == SurvivingSamples(serie_df[1], k_max_gap) # {}

\* C27: timing fields are recomputed consistently: every Series produced
\* by trim with a non-empty retained window, and every chunk produced by
\* split_on_gaps, has end_time - start_time equal to time[-1] - time[0],
\* start_time <= end_time, and duration equal to end_time - start_time.
C27_TimingRecomputed ==
  /\ (pc \in {"trim", "trim_split"} /\ ~ret[1].raised)
       => \A i \in DOMAIN ret[1].value :
            ret[1].value[i].x # <<>> => TimingConsistent(ret[1].value[i])
  /\ (pc = "split" /\ ~ret[1].raised /\ MadeChunks(inp, args.k_max_gap))
       => \A c \in DOMAIN ret[1].value : TimingConsistent(ret[1].value[c])
  /\ (pc = "trim_split" /\ ~ret[2].raised /\ MadeChunks(ret[1].value, args.k_max_gap))
       => \A c \in DOMAIN ret[2].value : TimingConsistent(ret[2].value[c])

\* a Series trimmed to a window that drops its first samples and then
\* split: the run that passes validation is returned as a chunk that ends
\* before the trimmed Series does
C27_Witness ==
  /\ pc = "trim_split" /\ ~ret[1].raised /\ ~ret[2].raised
  /\ Len(ret[1].value[1].x) < Len(inp[1].x)
  /\ ret[1].value[1].starttime > inp[1].starttime
  /\ MadeChunks(ret[1].value, args.k_max_gap)
  /\ Len(ret[2].value[1].x) < Len(ret[1].value[1].x)
  /\ ret[2].value[1].endtime < ret[1].value[1].endtime
  /\ ret[2].value[1].starttime = ret[1].value[1].starttime + ret[2].value[1].x[1]

---------------------------------------------------------------------------
(* SpecShiftSplit: a recording shifted, trimmed and split, as the shift     *)
(* search passes it on (lines 1636-1637, then 1161 and 1174 of calc_corr):  *)
(* ret[1] is the shifted table, ret[2] the trimmed one, ret[3] the result   *)
(* of split_signal_on_gaps.                                                 *)

MaxRun == 5

\* a recording of a first interval d, n - 1 intervals v and a last one w
RunSeries(d, n, v, w) ==
  LET y == <<d>> \o [i \in 1..(n - 1) |-> v] \o <<w>>
      x == FloatCumSum(y)
  IN [x |-> x, y |-> y, shift |-> 0, meas_name |-> MeasNames[1],
      starttime |-> StartTimes[1], endtime |-> StartTimes[1] + x[Len(x)],
      duration |-> x[Len(x)], index |-> Key(MeasNames[1], 0)]

\* recordings whose first interval is short, or ends among the last floats
\* up to 2^bits
RunTables(bits, maxRun) ==
  {<<RunSeries(d, n, vw[1], vw[2])>> :
     d \in {1} \cup ((Pow2(bits) - MaxBelow)..Pow2(bits)),
     n \in (MinValid + 1)..maxRun, vw \in {<<1, 1>>, <<1, 3>>, <<3, 3>>}}

InitShiftSplit == pc = "start" /\ inp \in RunTables(MantissaBits, MaxRun)
                  /\ args = <<>> /\ ret = <<>>

ShiftRun ==
  /\ pc = "start"
  /\ \E shift_ms \in 0..MaxOffset :
       /\ args' = [shift_ms |-> shift_ms]
       /\ ret' = <<shift_series(inp, shift_ms)>>
  /\ pc' = "run_shifted"
  /\ UNCHANGED inp

\* the window from the recording's start, or from its second sample on
TrimRun ==
  /\ pc = "run_shifted"
  /\ \E start \in {None, Some(ret[1][1].x[2])} :
       /\ args' = [shift_ms |-> args.shift_ms, start |-> start]
       /\ ret' = Append(ret, trim(ret[1], start, None).value)
  /\ pc' = "run_trimmed"
  /\ UNCHANGED inp

SplitRun ==
  /\ pc = "run_trimmed"
  /\ \E k_max_gap \in 1..MaxK :
       /\ args' = [shift_ms |-> args.shift_ms, start |-> args.start,
                   k_max_gap |-> k_max_gap]
       /\ ret' = Append(ret, split_signal_on_gaps(ret[2], k_max_gap))
  /\ pc' = "run_split"
  /\ UNCHANGED inp

NextShiftSplit == ShiftRun \/ TrimRun \/ SplitRun
SpecShiftSplit == InitShiftSplit /\ [][NextShiftSplit]_vars

\* the result is a single chunk that holds all samples of the Series
\* split, and no step of it exceeds max_gap
SingleChunkOfAll ==
  /\ ~ret[3].raised
  /\ Len(ret[3].value) = 1
  /\ ret[3].value[1].x = ret[2][1].x
  /\ ret[3].value[1].y = ret[2][1].y
  /\ \A j \in 2..Len(ret[2][1].x) :
       ret[2][1].x[j] - ret[2][1].x[j - 1] <= NanMax(ret[2][1].y) * args.k_max_gap

\* every step of the time array is the interval of the sample it leads to
StepsAreIntervals(row) ==
  \A j \in 2..Len(row.x) : row.x[j] - row.x[j - 1] = row.y[j]

\* C28: for a Series whose time array is the cumulative sum of its
\* non-negative, NaN-free interval array, possibly shifted by a constant or
\* trimmed to a window, and for every k_max_gap >= 1, split_on_gaps never
\* splits: no step between adjacent time values exceeds max(interval) *
\* k_max_gap and the result is a single chunk holding all samples.
C28_NeverSplits == pc = "run_split" => SingleChunkOfAll

\* C28 (amended): split_on_gaps does not split such a Series when every
\* step of its time array equals the interval of the sample it leads to,
\* as it does while the cumulative sum and the shift are exact; a sum or a
\* shift that is rounded can leave a step larger than max(interval), and
\* with k_max_gap = 1 the Series is then cut there.
C28_NoSplitOfExactSteps ==
  (pc = "run_split" /\ StepsAreIntervals(ret[2][1])) => SingleChunkOfAll

\* a recording shifted and trimmed from its second sample on, its steps
\* still its intervals, with a step equal to max_gap: returned in one chunk
C28_Witness ==
  /\ pc = "run_split"
  /\ args.shift_ms > 0 /\ args.start # None /\ args.k_max_gap = 1
  /\ Len(ret[2][1].x) < Len(inp[1].x)
  /\ StepsAreIntervals(ret[2][1])
  /\ ret[2][1].x[2] - ret[2][1].x[1] = NanMax(ret[2][1].y)
  /\ SingleChunkOfAll

---------------------------------------------------------------------------
(* What split_signal_on_gaps returns when no chunk passes validation,       *)
(* under SpecSplit.                                                         *)

\* max_gap of the call on the table
MaxGapOf(serie_df, k_max_gap) ==
  IF IsNaN(NanMax(serie_df[1].y)) THEN NaN ELSE NanMax(serie_df[1].y) * k_max_gap

\* the positions of the steps of x larger than max_gap
LargeSteps(x, max_gap) == {j \in 2..Len(x) : ExceedsGap(x, j, max_gap)}

\* C29: split_on_gaps never returns an empty table: when every chunk,
\* the final run included, fails single-row validation, it returns the
\* unsplit input Series unchanged as the only row, so that the steps of
\* the input larger than max_gap are still in the result; otherwise every
\* returned chunk has more than 3 valid samples and no step between
\* adjacent time values larger than max_gap.
C29_FallbackToInput ==
  pc = "split"
  => /\ ~ret[1].raised
     /\ ret[1].value # <<>>
     /\ ~MadeChunks(inp, args.k_max_gap)
          => /\ ret[1].value = inp
             /\ LargeSteps(ret[1].value[1].x, MaxGapOf(inp, args.k_max_gap))
                  = LargeSteps(inp[1].x, MaxGapOf(inp, args.k_max_gap))
     /\ MadeChunks(inp, args.k_max_gap)
          => \A c \in DOMAIN ret[1].value :
               /\ valid_elements_size(ret[1].value[c].x) > MinValid
               /\ valid_elements_size(ret[1].value[c].y) > MinValid
               /\ LargeSteps(ret[1].value[c].x, MaxGapOf(inp, args.k_max_gap)) = {}

\* a Series cut into runs of at most 3 samples: returned unsplit, a step
\* larger than max_gap still in it
C29_Witness ==
  /\ pc = "split" /\ ~ret[1].raised
  /\ ~MadeChunks(inp, args.k_max_gap)
  /\ Len(inp[1].x) > MinValid
  /\ LargeSteps(inp[1].x, MaxGapOf(inp, args.k_max_gap)) # {}
  /\ ret[1].value = inp
  /\ LargeSteps(ret[1].value[1].x, MaxGapOf(inp, args.k_max_gap)) # {}

---------------------------------------------------------------------------
(* The bookkeeping of the pair time_align_pair returns, under SpecAlign.    *)

\* the fields other than the arrays are those of the Series passed
SameBookkeeping(row, before) ==
  /\ row.shift = before.shift
  /\ row.index = before.index
  /\ row.meas_name = before.meas_name
  /\ row.starttime = before.starttime
  /\ row.endtime = before.endtime
  /\ row.duration = before.duration

\* the offset time_align_pair applied to the Series at position i
AppliedOffset(i) == ret[1].value[i].x[1] - inp[i].x[1]

\* C30: time_align leaves the bookkeeping of both Series untouched even
\* when it moves one of them: the returned Series have the same shift
\* field, key, start_time, end_time and duration as the inputs, so the
\* offset applied to the time values is not reflected in the shift or in a
\* later shift_diff.
C30_BookkeepingUntouched ==
  Aligned
  => /\ \A i \in 1..2 : SameBookkeeping(ret[1].value[i], inp[i])
     /\ pair_result(ret[1].value, <<Frac(1, 2)>>).shift_diff
          = inp[1].shift - inp[2].shift

\* a Series moved by a second or more, its shift and key as before,
\* where shift_series alone would have recorded the whole seconds
C30_Witness ==
  /\ Aligned
  /\ AppliedOffset(2) >= MsPerSecond
  /\ shift_series(<<inp[2]>>, AppliedOffset(2))[1].shift # inp[2].shift
  /\ shift_series(<<inp[2]>>, AppliedOffset(2))[1].index # inp[2].index
  /\ SameBookkeeping(ret[1].value[2], inp[2])
  /\ ret[1].value[1].x = inp[1].x

====
